---- MODULE Spec2Model ----
(***************************************************************************)
(* Task Canvas (src/js/app.js): the in-memory entity store, the view state *)
(* and the handlers that mutate them, as a state machine.                  *)
(*                                                                         *)
(* JS null / undefined of an id is the string "null", of a string field    *)
(* NoString, of a date NoDate, of a task id NoTask; an undefined           *)
(* sort_order is 0 (the code reads it through                              *)
(* `sort_order || 0`, and every sort_order the code writes is >= 1).       *)
(* Strings that the code searches are sequences of one-character strings.  *)
(* Dates are day numbers; timestamps are readings of `clock`.              *)
(***************************************************************************)
EXTENDS Integers, Sequences, FiniteSets, TLC

VARIABLES
    state,              \* the module-level `state` object: the entity store and the UI state
    dragState,          \* module-level dragState of the drag-and-drop engine
    dnd,                \* the browser's drag session: "none", "dragging", "dropped"
    dom,                \* what the last render put into #main-content
    viewAbortController,\* the current AbortController of the view-level listeners
    listeners,          \* live event listeners: binding site -> number registered
    modal,              \* the open modal dialog and the listeners on its fixed buttons
    ganttDragState,     \* the dragState of the closure of initGanttBarDragResize
    env,                \* the browser's environment: timezone (hours east of UTC), wall clock
    clock,              \* reading of new Date()
    idCounter,          \* ids handed out by generateId so far, per entity kind
    toast,              \* last showToast(message, type)
    lastOp              \* the handler that ran last, with its arguments

dragVars == <<dragState, dnd>>
renderVars == <<dom, viewAbortController, listeners, ganttDragState>>

vars == <<state, dragVars, renderVars, modal, env, clock, idCounter, toast, lastOp>>

----
\* Bounds of the model

\* task ids in use, loaded and created ones together
MaxTaskIds == 5
\* statuses the session may add on top of the loaded ones
MaxNewStatuses == 2
\* readings the clock may advance through
MaxClock == 2
\* mouse gestures of a session: drags of rows and cards, drags of Gantt bars
MaxGestures == 2
\* how far the roadmap may be moved off today's window, in units of its scale
MaxOffset == 2
\* projects the session may create on top of the loaded ones
MaxNewProjects == 1
\* timer callbacks that may be pending at once
MaxTimers == 2

\* null / undefined of an id
NULL == "null"
\* null / undefined of a string field
NoString == <<"null">>
\* null of a date field
NoDate == -1
\* no task id (null draggingTaskId)
NoTask == 0

----
\* Generic helpers

\* Array.prototype.filter
SeqFilter(s, Keep(_)) ==
    LET F[i \in 0..Len(s)] ==
            IF i = 0 THEN <<>>
            ELSE IF Keep(s[i]) THEN Append(F[i - 1], s[i]) ELSE F[i - 1]
    IN F[Len(s)]

Range(s) == { s[i] : i \in 1..Len(s) }

\* Array.prototype.findIndex, 1-based; 0 stands for -1
FindIndex(s, Test(_)) ==
    IF \E i \in 1..Len(s) : Test(s[i])
    THEN CHOOSE i \in 1..Len(s) : Test(s[i]) /\ \A j \in 1..(i - 1) : ~Test(s[j])
    ELSE 0

\* Array.prototype.splice(i, 1) with a 1-based index
RemoveAt(s, i) == SubSeq(s, 1, i - 1) \o SubSeq(s, i + 1, Len(s))

\* Array.prototype.splice(i, 0, x) with a 0-based index i
InsertAt(s, i, x) == SubSeq(s, 1, i) \o <<x>> \o SubSeq(s, i + 1, Len(s))

\* String.prototype.includes on sequences of characters
Includes(str, q) ==
    \E i \in 0..(Len(str) - Len(q)) : SubSeq(str, i + 1, i + Len(q)) = q

LowerChar(c) == IF c = "A" THEN "a" ELSE IF c = "B" THEN "b" ELSE c

\* String.prototype.toLowerCase
ToLowerCase(str) == [i \in 1..Len(str) |-> LowerChar(str[i])]

RECURSIVE TrimLeft(_)
TrimLeft(str) ==
    IF str # <<>> /\ Head(str) = " " THEN TrimLeft(Tail(str)) ELSE str

RECURSIVE TrimRight(_)
TrimRight(str) ==
    IF str # <<>> /\ str[Len(str)] = " " THEN TrimRight(SubSeq(str, 1, Len(str) - 1)) ELSE str

\* String.prototype.trim
Trim(str) == TrimRight(TrimLeft(str))

UpperChar(c) == IF c = "a" THEN "A" ELSE IF c = "b" THEN "B" ELSE c

\* String.prototype.toUpperCase
ToUpperCase(str) == [i \in 1..Len(str) |-> UpperChar(str[i])]

\* the characters of the class [a-z0-9] that the model's strings use
SlugChars == {"a", "b", "e", "h", "l", "p", "t", "0", "1"}

\* the JS string of a sequence of characters
RECURSIVE Join(_)
Join(str) == IF str = <<>> THEN "" ELSE Head(str) \o Join(Tail(str))

RECURSIVE DropRun(_, _)
DropRun(str, keep) ==
    IF str # <<>> /\ Head(str) \notin keep THEN DropRun(Tail(str), keep) ELSE str

\* str.replace(/[^...]+/g, '-'): every maximal run of characters outside `keep`
\* becomes one '-'
RECURSIVE ReplaceRuns(_, _)
ReplaceRuns(str, keep) ==
    IF str = <<>> THEN <<>>
    ELSE IF Head(str) \in keep THEN <<Head(str)>> \o ReplaceRuns(Tail(str), keep)
    ELSE <<"-">> \o ReplaceRuns(DropRun(str, keep), keep)

\* str.replace(/(^-|-$)/g, ''): one leading and one trailing '-' are removed
StripDashes(str) ==
    LET front == IF str # <<>> /\ Head(str) = "-" THEN Tail(str) ELSE str
    IN IF front # <<>> /\ front[Len(front)] = "-"
       THEN SubSeq(front, 1, Len(front) - 1) ELSE front

\* the slug handleCreateProject derives from the trimmed name
CreateSlug(name) == Join(StripDashes(ReplaceRuns(ToLowerCase(name), SlugChars)))

\* the characters that are no whitespace, for /\s+/
NonSpaceChars == SlugChars \cup {"A", "B", "!", "-"}

\* the slug the save-settings handler derives from the trimmed name
SettingsSlug(name) ==
    Join(SeqFilter(ReplaceRuns(ToLowerCase(name), NonSpaceChars),
                   LAMBDA c : c \in SlugChars \cup {"-"}))

\* Array.prototype.sort with comparator (a.sort_order || 0) - (b.sort_order || 0):
\* stable, ascending
RECURSIVE InsertByOrder(_, _)
InsertByOrder(sorted, t) ==
    IF sorted = <<>> THEN <<t>>
    ELSE IF Head(sorted).sort_order <= t.sort_order
         THEN <<Head(sorted)>> \o InsertByOrder(Tail(sorted), t)
         ELSE <<t>> \o sorted

RECURSIVE SortBySortOrder(_)
SortBySortOrder(s) ==
    IF s = <<>> THEN <<>>
    ELSE InsertByOrder(SortBySortOrder(SubSeq(s, 1, Len(s) - 1)), s[Len(s)])

----
\* Data helpers. st is the value of the `state` object the function reads.

\* Array.prototype.find: the callers below test has... before they read the entity
hasProjectSlug(st, slug) == \E i \in 1..Len(st.projects) : st.projects[i].slug = slug
getProjectBySlug(st, slug) == st.projects[FindIndex(st.projects, LAMBDA p : p.slug = slug)]

\* state.users[0], undefined when there is no user
hasCurrentUser(st) == st.users # <<>>
getCurrentUser(st) == st.users[1]

hasUser(st, id) == \E i \in 1..Len(st.users) : st.users[i].id = id
getUserById(st, id) == st.users[FindIndex(st.users, LAMBDA u : u.id = id)]

hasStatus(st, id) == \E i \in 1..Len(st.statuses) : st.statuses[i].id = id
getStatusById(st, id) == st.statuses[FindIndex(st.statuses, LAMBDA s : s.id = id)]

hasLabel(st, id) == \E i \in 1..Len(st.labels) : st.labels[i].id = id
getLabelById(st, id) == st.labels[FindIndex(st.labels, LAMBDA l : l.id = id)]

getTaskIndex(st, id) == FindIndex(st.tasks, LAMBDA t : t.id = id)
hasTask(st, id) == getTaskIndex(st, id) # 0
getTaskById(st, id) == st.tasks[getTaskIndex(st, id)]

getStatusesForProject(st, projectId) ==
    SortBySortOrder(SeqFilter(st.statuses, LAMBDA s : s.project_id = projectId))

\* The search test of getTasksForProject for one task and a prepared query
SearchMatches(st, t, searchQuery) ==
    LET titleMatch == Includes(ToLowerCase(t.title), searchQuery)
        descMatch == t.description # NoString /\ Includes(ToLowerCase(t.description), searchQuery)
        keyMatch == t.key # NoString /\ Includes(ToLowerCase(t.key), searchQuery)
        assigneeMatch == /\ t.assignee_id # NULL
                         /\ hasUser(st, t.assignee_id)
                         /\ Includes(ToLowerCase(getUserById(st, t.assignee_id).name), searchQuery)
        labelMatch == \E i \in 1..Len(t.label_ids) :
                          /\ hasLabel(st, t.label_ids[i])
                          /\ Includes(ToLowerCase(getLabelById(st, t.label_ids[i]).name), searchQuery)
    IN titleMatch \/ descMatch \/ keyMatch \/ assigneeMatch \/ labelMatch

\* The filter callback with a return after the assigned-to-me test: a task of
\* the current user is accepted without the assignee and the search test
TaskPassesCoupled(st, t, projectId) ==
    IF t.project_id # projectId THEN FALSE
    ELSE IF ~st.showArchivedTasks[projectId] /\ t.is_archived THEN FALSE
    ELSE IF st.assignedToMe[projectId] /\ hasCurrentUser(st)
    THEN t.assignee_id = getCurrentUser(st).id
    ELSE IF /\ st.assigneeFilter[projectId] # {}
            /\ ~(t.assignee_id # NULL /\ t.assignee_id \in st.assigneeFilter[projectId])
            /\ ~(t.assignee_id = NULL /\ "unassigned" \in st.assigneeFilter[projectId])
    THEN FALSE
    ELSE IF /\ Trim(ToLowerCase(st.taskSearch[projectId])) # <<>>
            /\ ~SearchMatches(st, t, Trim(ToLowerCase(st.taskSearch[projectId])))
    THEN FALSE
    ELSE TRUE

\* the filter callback with `!t.assignee_id` alone in the place of
\* `!t.assignee_id && hasUnassigned`
TaskPassesUnassignedAlways(st, t, projectId) ==
    LET showArchived == st.showArchivedTasks[projectId]
        filterAssignedToMe == st.assignedToMe[projectId]
        selectedAssignees == st.assigneeFilter[projectId]
        searchQuery == Trim(ToLowerCase(st.taskSearch[projectId]))
        taskAssigneeSelected == t.assignee_id # NULL /\ t.assignee_id \in selectedAssignees
        taskIsUnassigned == t.assignee_id = NULL
    IN IF t.project_id # projectId THEN FALSE
       ELSE IF ~showArchived /\ t.is_archived THEN FALSE
       ELSE IF filterAssignedToMe /\ hasCurrentUser(st) /\ t.assignee_id # getCurrentUser(st).id
            THEN FALSE
       ELSE IF selectedAssignees # {} /\ ~taskAssigneeSelected /\ ~taskIsUnassigned THEN FALSE
       ELSE IF searchQuery # <<>> /\ ~SearchMatches(st, t, searchQuery) THEN FALSE
       ELSE TRUE

\* The filter callback of getTasksForProject: the tests run in the code's order,
\* each returning false early
TaskPasses(st, t, projectId) ==
    LET showArchived == st.showArchivedTasks[projectId]
        filterAssignedToMe == st.assignedToMe[projectId]
        selectedAssignees == st.assigneeFilter[projectId]
        searchQuery == Trim(ToLowerCase(st.taskSearch[projectId]))
        hasUnassigned == "unassigned" \in selectedAssignees
        taskAssigneeSelected == t.assignee_id # NULL /\ t.assignee_id \in selectedAssignees
        taskIsUnassigned == t.assignee_id = NULL /\ hasUnassigned
    IN IF t.project_id # projectId THEN FALSE
       ELSE IF ~showArchived /\ t.is_archived THEN FALSE
       ELSE IF filterAssignedToMe /\ hasCurrentUser(st) /\ t.assignee_id # getCurrentUser(st).id
            THEN FALSE
       ELSE IF selectedAssignees # {} /\ ~taskAssigneeSelected /\ ~taskIsUnassigned THEN FALSE
       ELSE IF searchQuery # <<>> /\ ~SearchMatches(st, t, searchQuery) THEN FALSE
       ELSE TRUE

\* `filterAssignedToMe` alone in the place of the test below
AssignedToMeTestedWithoutUser(st, projectId) == st.assignedToMe[projectId]

\* `filterAssignedToMe && currentUser`: the callback goes on to read currentUser.id
AssignedToMeTested(st, projectId) == st.assignedToMe[projectId] /\ hasCurrentUser(st)

\* getTasksForProject throws a TypeError: the callback reads currentUser.id of an
\* undefined user, or calls toLowerCase on the title of a task that has none
getTasksForProjectThrows(st, projectId) ==
    \E i \in 1..Len(st.tasks) :
        /\ st.tasks[i].project_id = projectId
        /\ st.showArchivedTasks[projectId] \/ ~st.tasks[i].is_archived
        /\ \/ AssignedToMeTested(st, projectId) /\ ~hasCurrentUser(st)
           \/ /\ TaskPasses([st EXCEPT !.taskSearch[projectId] = <<>>], st.tasks[i], projectId)
              /\ Trim(ToLowerCase(st.taskSearch[projectId])) # <<>>
              /\ st.tasks[i].title = NoString

\* getTasksForProject(projectId): includeArchived left at its default null
getTasksForProject(st, projectId) ==
    SeqFilter(st.tasks, LAMBDA t : TaskPasses(st, t, projectId))

----
\* Derived-view computation

\* [...new Set(ids)]: first occurrences, in order
Unique(s) ==
    LET F[i \in 0..Len(s)] ==
            IF i = 0 THEN <<>>
            ELSE LET seen == F[i - 1]
                 IN IF \E j \in 1..Len(seen) : seen[j] = s[i]
                    THEN seen ELSE Append(seen, s[i])
    IN F[Len(s)]

\* tasks.map(t => t.assignee_id)
AssigneeIds(ts) == [i \in 1..Len(ts) |-> ts[i].assignee_id]

\* memberIds.map(id => getUserById(id)) for ids of known users
UsersById(st, ids) == [i \in 1..Len(ids) |-> getUserById(st, ids[i])]

\* getProjectMembers(projectId): the users that are assignee of a task of the
\* current projection, in order of first appearance
getProjectMembers(st, projectId) ==
    UsersById(st, SeqFilter(Unique(SeqFilter(AssigneeIds(getTasksForProject(st, projectId)),
                                             LAMBDA id : id # NULL)),
                            LAMBDA id : hasUser(st, id)))

\* ids of the fixed priority groups of getGroupsForTasks
PriorityGroupIds == <<"priority-high", "priority-medium", "priority-low", "priority-none">>

AssigneeGroupId(userId) == "assignee-" \o userId

\* the tasks getGroupsForTasks pushes into the status group of status id sid
StatusGroupTasks(ts, sid) == SeqFilter(ts, LAMBDA t : t.status_id = sid)

\* the tasks getGroupsForTasks pushes into priority group gid
PriorityGroupTasks(ts, gid) ==
    SeqFilter(ts, LAMBDA t :
        LET groupId == IF t.priority_id # NULL THEN t.priority_id ELSE "priority-none"
        IN IF groupId \in Range(PriorityGroupIds) THEN groupId = gid
           ELSE gid = "priority-none")

\* the tasks getGroupsForTasks pushes into assignee group gid, given the member groups
AssigneeGroupTasks(ts, gid, memberGroupIds) ==
    SeqFilter(ts, LAMBDA t :
        IF t.assignee_id # NULL
        THEN IF AssigneeGroupId(t.assignee_id) \in memberGroupIds
             THEN AssigneeGroupId(t.assignee_id) = gid
             ELSE gid = "unassigned"
        ELSE gid = "unassigned")

\* the status groups, in workflow order, each with its tasksByGroup entry
StatusGroups(ts, sts) ==
    [i \in 1..Len(sts) |->
        [id |-> sts[i].id, type |-> "status", tasks |-> StatusGroupTasks(ts, sts[i].id)]]

\* the priority groups, each with its tasksByGroup entry
PriorityGroups(ts) ==
    [i \in 1..Len(PriorityGroupIds) |->
        [id |-> PriorityGroupIds[i], type |-> "priority",
         tasks |-> PriorityGroupTasks(ts, PriorityGroupIds[i])]]

\* 'unassigned' and one group id per project member
AssigneeGroupIds(members) ==
    <<"unassigned">> \o [i \in 1..Len(members) |-> AssigneeGroupId(members[i].id)]

\* the assignee groups, each with its tasksByGroup entry
AssigneeGroups(ts, ids) ==
    [i \in 1..Len(ids) |->
        [id |-> ids[i], type |-> "assignee", tasks |-> AssigneeGroupTasks(ts, ids[i], Range(ids))]]

\* getGroupsForTasks(tasks, project, groupBy): the groups in order, each with
\* its tasksByGroup entry
getGroupsForTasks(st, ts, projectId, groupBy) ==
    IF groupBy = "none"
    THEN << [id |-> "all-tasks", type |-> "none", tasks |-> ts] >>
    ELSE IF groupBy = "status"
    THEN StatusGroups(ts, getStatusesForProject(st, projectId))
    ELSE IF groupBy = "priority"
    THEN PriorityGroups(ts)
    ELSE IF groupBy = "assignee"
    THEN AssigneeGroups(ts, AssigneeGroupIds(getProjectMembers(st, projectId)))
    ELSE <<>>

\* Math.round of the quotient num / den of two naturals, den > 0
RoundDiv(num, den) == (2 * num + den) \div (2 * den)

\* ids of the statuses of category done
DoneStatusIds(sts) == { sts[i].id : i \in { j \in 1..Len(sts) : sts[j].category = "done" } }

\* the result object of calculateProjectProgress for its tasks and done tasks
Progress(ts, doneTasks) ==
    IF Len(ts) = 0 THEN [done |-> 0, total |-> 0, percentage |-> 0]
    ELSE [done |-> Len(doneTasks), total |-> Len(ts),
          percentage |-> RoundDiv(Len(doneTasks) * 100, Len(ts))]

\* tasks.filter(t => doneStatusIds.includes(t.status_id))
DoneTasks(ts, doneStatusIds) == SeqFilter(ts, LAMBDA t : t.status_id \in doneStatusIds)

\* calculateProjectProgress(projectId)
calculateProjectProgress(st, projectId) ==
    Progress(getTasksForProject(st, projectId),
             DoneTasks(getTasksForProject(st, projectId),
                       DoneStatusIds(getStatusesForProject(st, projectId))))

----
\* Calendar and timeline of the roadmap. Calendar days are numbered, instants
\* are counted in hundredths of an hour since UTC midnight of day 0.

\* hundredths of an hour in 1000 * 60 * 60 * 24 ms
DayUnits == 2400
\* hundredths of an hour in an hour
HourUnits == 100

\* the day number of 2024-12-01, a Sunday; day numbers are congruent to the weekday
Dec1 == 7
\* getFullYear() and getMonth() of the m-th month counted from December 2024 (m = 0)
YearOf(m) == 2025 + ((m - 1) \div 12)
MonthOf(m) == (m - 1) % 12

\* the number of days of the m-th month
MonthLength(m) ==
    IF MonthOf(m) = 1 THEN (IF YearOf(m) % 4 = 0 THEN 29 ELSE 28)
    ELSE IF MonthOf(m) \in {3, 5, 8, 10} THEN 30 ELSE 31

Max(a, b) == IF a > b THEN a ELSE b
Min(a, b) == IF a < b THEN a ELSE b

\* new Date(year, month, 1) for the m-th month counted from December 2024 (m = 0)
RECURSIVE MonthStart(_)
MonthStart(m) ==
    IF m = 0 THEN Dec1
    ELSE IF m > 0 THEN MonthStart(m - 1) + MonthLength(m - 1)
    ELSE MonthStart(m + 1) - MonthLength(m)

\* the instant of local midnight of a calendar day in a zone `zone` hours east of UTC
LocalMidnight(day, zone) == DayUnits * day - HourUnits * zone

\* new Date(): the instant of the wall-clock reading `now` = [day, hour, month]
Instant(now, zone) == LocalMidnight(now.day, zone) + HourUnits * now.hour

\* new Date("YYYY-MM-DD"): UTC midnight of the day
ParseDate(day) == DayUnits * day

\* getStartOfWeek(date): the Monday of the week, at the time of day of `date`
getStartOfWeek(now) ==
    LET day == now.day % 7
        diff == now.day - day + (IF day = 0 THEN -6 ELSE 1)
    IN [now EXCEPT !.day = diff]

\* a week timeline whose offset counts days instead of weeks
generateWeekTimelineSteppingByDays(offset, now, zone) ==
    LET startOfWeek == [getStartOfWeek(now) EXCEPT !.day = @ + offset]
        units == [u \in 1..4 |->
                    LET weekStart == [startOfWeek EXCEPT !.day = @ + (u - 2) * 7]
                    IN [start |-> Instant(weekStart, zone),
                        end |-> Instant([weekStart EXCEPT !.day = @ + 6], zone)]]
        timelineStart == units[1].start
        timelineEnd == units[Len(units)].end
    IN [units |-> units, timelineStart |-> timelineStart, timelineEnd |-> timelineEnd,
        totalDays |-> ((timelineEnd - timelineStart + DayUnits - 1) \div DayUnits) + 1]

\* generateWeekTimeline(offset, today): four weeks from the week before this one;
\* units[u] is the week w = u - 2 of the loop, from its Monday to its Sunday
generateWeekTimeline(offset, now, zone) ==
    LET startOfWeek == [getStartOfWeek(now) EXCEPT !.day = @ + offset * 7]
        units == [u \in 1..4 |->
                    LET weekStart == [startOfWeek EXCEPT !.day = @ + (u - 2) * 7]
                    IN [start |-> Instant(weekStart, zone),
                        end |-> Instant([weekStart EXCEPT !.day = @ + 6], zone)]]
        timelineStart == units[1].start
        timelineEnd == units[Len(units)].end
    IN [units |-> units, timelineStart |-> timelineStart, timelineEnd |-> timelineEnd,
        totalDays |-> ((timelineEnd - timelineStart + DayUnits - 1) \div DayUnits) + 1]

\* generateMonthTimeline(offset, today): four months from the month before this one
generateMonthTimeline(offset, now, zone) ==
    LET units == [u \in 1..4 |->
                    LET date == now.month + (u - 2 + offset)
                    IN [start |-> LocalMidnight(MonthStart(date), zone),
                        end |-> LocalMidnight(MonthStart(date + 1) - 1, zone)]]
        timelineStart == units[1].start
        timelineEnd == units[Len(units)].end
    IN [units |-> units, timelineStart |-> timelineStart, timelineEnd |-> timelineEnd,
        totalDays |-> (timelineEnd - timelineStart + DayUnits - 1) \div DayUnits]

\* generateQuarterTimeline(offset, today): four quarters from the quarter before
\* this one; the m-th month is month MonthOf(m) of year YearOf(m)
generateQuarterTimeline(offset, now, zone) ==
    LET currentQuarter == MonthOf(now.month) \div 3
        january == now.month - MonthOf(now.month)
        units == [u \in 1..4 |->
                    LET quarterIndex == currentQuarter + (u - 2 + offset)
                        quarterStart == january + 3 * quarterIndex
                    IN [start |-> LocalMidnight(MonthStart(quarterStart), zone),
                        end |-> LocalMidnight(MonthStart(quarterStart + 3) - 1, zone)]]
        timelineStart == units[1].start
        timelineEnd == units[Len(units)].end
    IN [units |-> units, timelineStart |-> timelineStart, timelineEnd |-> timelineEnd,
        totalDays |-> (timelineEnd - timelineStart + DayUnits - 1) \div DayUnits]

\* generateYearTimeline(offset, today): three years from the year before this one
generateYearTimeline(offset, now, zone) ==
    LET january == now.month - MonthOf(now.month)
        units == [u \in 1..3 |->
                    LET year == january + 12 * (u - 2 + offset)
                    IN [start |-> LocalMidnight(MonthStart(year), zone),
                        end |-> LocalMidnight(MonthStart(year + 11) + 30, zone)]]
        timelineStart == units[1].start
        timelineEnd == units[Len(units)].end
    IN [units |-> units, timelineStart |-> timelineStart, timelineEnd |-> timelineEnd,
        totalDays |-> (timelineEnd - timelineStart + DayUnits - 1) \div DayUnits]

\* generateTimeline(scale, offset, today)
generateTimeline(scale, offset, now, zone) ==
    CASE scale = "week" -> generateWeekTimeline(offset, now, zone)
      [] scale = "month" -> generateMonthTimeline(offset, now, zone)
      [] scale = "quarter" -> generateQuarterTimeline(offset, now, zone)
      [] scale = "year" -> generateYearTimeline(offset, now, zone)
      [] OTHER -> generateMonthTimeline(offset, now, zone)

\* getGanttBarStyle(task, timelineStart, totalDays, color): left and width of
\* the bar, as lengths of which DayUnits * totalDays make 100 %
getGanttBarStyle(task, timelineStart, totalDays) ==
    LET startDate == ParseDate(IF task.start_date # NoDate THEN task.start_date ELSE task.due_date)
        endDate == ParseDate(IF task.due_date # NoDate THEN task.due_date ELSE task.start_date)
        actualStart == IF startDate < endDate THEN startDate ELSE endDate
        end == IF startDate < endDate THEN endDate ELSE startDate
        actualEnd == IF actualStart = end THEN end + 7 * DayUnits ELSE end
        startOffset == Max(0, actualStart - timelineStart)
        duration == Max(7 * DayUnits, actualEnd - actualStart)
    IN [left |-> startOffset, width |-> Min(duration, DayUnits * totalDays - startOffset)]

\* pixelToDate(pixelX, containerWidth) of initGanttBarDragResize: setDate moves
\* the local calendar day and keeps the local time of day
pixelToDate(position, timelineStart) ==
    timelineStart + DayUnits * RoundDiv(position, DayUnits)

\* formatDateISO(date): the calendar day of the instant in UTC
formatDateISO(instant) == instant \div DayUnits

----
\* Render-reconciliation: the DOM of #main-content and the listener registry

\* id of the n-th project created by the session: generateId is unique per call
NewProjectId(n) == "proj-" \o ToString(n)

\* the keys of the per-project maps of the view state
ProjectIds == {"p1", "p2"} \cup { NewProjectId(n) : n \in 1..MaxNewProjects }

\* the routing keys a render can be asked for
Slugs == {"alpha", "beta"}

\* rows (task ids) of a group's task list
RowIds(ts) == [i \in 1..Len(ts) |-> ts[i].id]

\* the rendered form of a group: its id, its type and its rows
RenderedGroups(gs) ==
    [i \in 1..Len(gs) |-> [id |-> gs[i].id, type |-> gs[i].type, rows |-> RowIds(gs[i].tasks),
                           lanes |-> <<>>]]

\* s in reverse order
Reverse(s) == [i \in 1..Len(s) |-> s[Len(s) + 1 - i]]

\* state.priorities.slice().sort((a, b) => b.sort_order - a.sort_order)
SortByOrderDescending(s) == Reverse(SortBySortOrder(Reverse(s)))

\* the lanes of getSwimlanes for the priorities: the 'priority-none' lane last
PriorityLanes(priorities) ==
    [i \in 1..Len(priorities) |-> [id |-> priorities[i].id, value |-> priorities[i].id]]
        \o << [id |-> "priority-none", value |-> NULL] >>

\* the lanes of getSwimlanes for the project members: the 'unassigned' lane first
AssigneeLanes(members) ==
    << [id |-> "unassigned", value |-> NULL] >>
        \o [i \in 1..Len(members) |->
                [id |-> AssigneeGroupId(members[i].id), value |-> members[i].id]]

\* getSwimlanes(tasks, project, swimlane): the lanes with the value their
\* filter compares the task's field with
getSwimlanes(st, projectId, swimlane) ==
    IF swimlane = "priority" THEN PriorityLanes(SortByOrderDescending(st.priorities))
    ELSE IF swimlane = "assignee" THEN AssigneeLanes(getProjectMembers(st, projectId))
    ELSE <<>>

\* lane.filter(t)
LaneHolds(lane, swimlane, t) ==
    IF swimlane = "priority" THEN t.priority_id = lane.value ELSE t.assignee_id = lane.value

\* renderBoardSwimlane for every lane of a column: a lane without tasks renders nothing
RenderedLanes(lanes, swimlane, ts) ==
    SeqFilter([i \in 1..Len(lanes) |->
                  [id |-> lanes[i].id, value |-> lanes[i].value,
                   rows |-> RowIds(SeqFilter(ts, LAMBDA t : LaneHolds(lanes[i], swimlane, t)))]],
              LAMBDA lane : lane.rows # <<>>)

\* the cards of a column in document order: lane after lane
RECURSIVE LaneRows(_)
LaneRows(lanes) == IF lanes = <<>> THEN <<>> ELSE Head(lanes).rows \o LaneRows(Tail(lanes))

\* renderBoardColumn with swimlanes: the column of a status group with its lanes
ColumnWithLanes(group, lanes) ==
    [id |-> group.id, type |-> group.type, rows |-> LaneRows(lanes), lanes |-> lanes]

\* the columns of the board for the lanes of getSwimlanes
LanedColumns(gs, lanes, swimlane) ==
    [i \in 1..Len(gs) |-> ColumnWithLanes(gs[i], RenderedLanes(lanes, swimlane, gs[i].tasks))]

\* renderBoardView: one column per status, its cards in the order of the
\* projection or, with swimlanes, lane by lane
BoardColumns(st, ts, projectId) ==
    IF st.boardSwimlane[projectId] \in {"priority", "assignee"}
    THEN LanedColumns(StatusGroups(ts, getStatusesForProject(st, projectId)),
                      getSwimlanes(st, projectId, st.boardSwimlane[projectId]),
                      st.boardSwimlane[projectId])
    ELSE RenderedGroups(StatusGroups(ts, getStatusesForProject(st, projectId)))

\* renderTaskListView: one .task-group per group of getGroupsForTasks
ListGroups(st, ts, projectId, groupBy) ==
    RenderedGroups(getGroupsForTasks(st, ts, projectId, groupBy))

\* the style of the bar of a task
GanttBar(task, style) == [taskId |-> task.id, left |-> style.left, width |-> style.width]

\* the bars of the tasks that have a date
DatedBars(dated, timeline) ==
    [i \in 1..Len(dated) |->
        GanttBar(dated[i], getGanttBarStyle(dated[i], timeline.timelineStart, timeline.totalDays))]

\* renderRoadmapView: a .gantt-bar with a style for every task that has a date
GanttBars(ts, timeline) ==
    DatedBars(SeqFilter(ts, LAMBDA t : t.start_date # NoDate \/ t.due_date # NoDate), timeline)

NotFoundDom == [view |-> "notfound", slug |-> NULL, tab |-> NULL, groups |-> <<>>,
                quickAdd |-> NULL, bars |-> <<>>, hasGantt |-> FALSE, cards |-> 0,
                timelineStart |-> 0, totalDays |-> 0]

\* renderTabContent: the groups or columns of the tab
TabGroups(st, ts, projectId) ==
    IF st.currentProjectTab = "board" THEN BoardColumns(st, ts, projectId)
    ELSE IF st.currentProjectTab = "tasks"
    THEN ListGroups(st, ts, projectId, st.projectGroupBy[projectId])
    ELSE <<>>

\* the rendered project detail view, as the data the handlers read back
DetailRecord(st, slug, groups, bars, timeline) ==
    [view |-> "detail", slug |-> slug, tab |-> st.currentProjectTab, groups |-> groups,
     quickAdd |-> IF \E i \in 1..Len(groups) : groups[i].id = st.quickAddStatus
                  THEN st.quickAddStatus ELSE NULL,
     bars |-> IF st.currentProjectTab = "roadmap" THEN bars ELSE <<>>,
     hasGantt |-> st.currentProjectTab = "roadmap",
     cards |-> 0,
     timelineStart |-> IF st.currentProjectTab = "roadmap" THEN timeline.timelineStart ELSE 0,
     totalDays |-> IF st.currentProjectTab = "roadmap" THEN timeline.totalDays ELSE 0]

\* the view of a project for its projection ts and the timeline of the roadmap
DetailOf(st, slug, projectId, ts, timeline) ==
    DetailRecord(st, slug, TabGroups(st, ts, projectId), GanttBars(ts, timeline), timeline)

\* the markup renderProjectDetail(slug) writes
DetailDom(st, slug, now, zone) ==
    IF ~hasProjectSlug(st, slug) THEN NotFoundDom
    ELSE DetailOf(st, slug, getProjectBySlug(st, slug).id,
                  getTasksForProject(st, getProjectBySlug(st, slug).id),
                  generateTimeline(st.roadmapScale, st.roadmapOffset, now, zone))

\* the markup renderProjectsLanding writes: one card per listed project
LandingDom(st) ==
    [view |-> "landing", slug |-> NULL, tab |-> NULL, groups |-> <<>>,
     quickAdd |-> NULL, bars |-> <<>>, hasGantt |-> FALSE, cards |-> Len(st.projects),
     timelineStart |-> 0, totalDays |-> 0]

\* Binding sites of view-level listeners
SignedElementSites == {"project-card:click", "project-tab:click", "task-row:click",
                       "board-card:click", "add-task:click", "gantt-bar:mousedown",
                       "settings-action:click"}
SignedDocumentSites == {"document:mousemove", "document:mouseup"}
UnsignedElementSites == {"task-row:dnd", "task-list:dnd", "board-card:dnd",
                         "board-column-content:dnd"}
\* the listeners of a row or card that left the document and is still referenced
\* by dragState.dragElement
DetachedSites == {"drag-element:dnd"}
Sites == SignedElementSites \cup SignedDocumentSites \cup UnsignedElementSites \cup DetachedSites

\* a listener registered with { signal } of the view controller
SiteSigned(site) == site \in SignedElementSites \cup SignedDocumentSites
\* a listener registered on an element inside #main-content
SiteInSubtree(site) == site \in SignedElementSites \cup UnsignedElementSites

RECURSIVE SumRows(_)
SumRows(groups) == IF groups = <<>> THEN 0 ELSE Len(Head(groups).rows) + SumRows(Tail(groups))

\* the tabs of the <nav class="project-tabs"> markup
ProjectTabCount == 7
\* dragstart, dragend, dragover, dragleave, drop on every row and card
RowDndListeners == 5
\* dragover, dragleave, drop on every .task-list and .board-column-content
ListDndListeners == 3
\* #save-settings, #toggle-archive and #delete-project of the settings tab
SettingsActionButtons == 3

\* how many listeners one attach pass registers at a site for a given DOM
BoundAt(site, d) ==
    LET rows == SumRows(d.groups)
    IN CASE site = "project-card:click" -> d.cards
         [] site = "project-tab:click" -> IF d.view = "detail" THEN ProjectTabCount ELSE 0
         [] site = "task-row:click" -> IF d.tab = "tasks" THEN rows ELSE 0
         [] site = "board-card:click" -> IF d.tab = "board" THEN rows ELSE 0
         [] site = "add-task:click" ->
                Cardinality({ i \in 1..Len(d.groups) : d.groups[i].id # d.quickAdd })
         [] site = "gantt-bar:mousedown" -> Len(d.bars)
         [] site = "settings-action:click" ->
                IF d.tab = "settings" THEN SettingsActionButtons ELSE 0
         [] site = "document:mousemove" -> IF d.hasGantt THEN 1 ELSE 0
         [] site = "document:mouseup" -> IF d.hasGantt THEN 1 ELSE 0
         [] site = "task-row:dnd" -> IF d.tab = "tasks" THEN RowDndListeners * rows ELSE 0
         [] site = "task-list:dnd" -> IF d.tab = "tasks" THEN ListDndListeners * Len(d.groups) ELSE 0
         [] site = "board-card:dnd" -> IF d.tab = "board" THEN RowDndListeners * rows ELSE 0
         [] site = "board-column-content:dnd" ->
                IF d.tab = "board" THEN ListDndListeners * Len(d.groups) ELSE 0
         [] site = "drag-element:dnd" -> 0

\* viewAbortController.abort(): every listener registered with its signal is removed
Abort(ls) == [site \in Sites |-> IF SiteSigned(site) THEN 0 ELSE ls[site]]

\* cleanupViewListeners(): the registry after the abort; the controller is replaced
cleanupViewListeners(ls) == Abort(ls)
FreshController == [aborted |-> FALSE]

\* mainContent.innerHTML = ...: the old subtree leaves the document and its
\* elements are garbage with their listeners, except the element that
\* dragState.dragElement still references
ReplaceSubtree(ls, ds) ==
    [site \in Sites |->
        IF SiteInSubtree(site) THEN 0
        ELSE IF site \in DetachedSites
        THEN (IF ds.dragElement # NULL THEN RowDndListeners ELSE 0)
        ELSE ls[site]]

\* addEventListener at every binding site; with an aborted signal it registers nothing
AttachListeners(ls, d, controller) ==
    [site \in Sites |->
        ls[site] + (IF SiteSigned(site) /\ controller.aborted THEN 0 ELSE BoundAt(site, d))]

\* null of the closure variable dragState of initGanttBarDragResize
NoGanttDrag == [taskId |-> NoTask, dragType |-> NULL, bar |-> 0,
                initialLeft |-> 0, initialWidth |-> 0]

\* dragState after a render: the element it references has left the document
DetachedDragState(ds) ==
    IF ds.dragElement # NULL THEN [ds EXCEPT !.dragElement = "detached"] ELSE ds

\* the writes of a render of the view d for the route slug
RenderView(d, rest, ds, slug) ==
    /\ dom' = d
    /\ viewAbortController' = FreshController
    /\ ganttDragState' = NoGanttDrag
    /\ IF d.view = "notfound"
       THEN listeners' = rest /\ dragState' = ds
       ELSE /\ listeners' = AttachListeners(rest, d, FreshController)
            /\ dragState' = IF d.view = "detail" THEN [ds EXCEPT !.currentProjectSlug = slug]
                            ELSE ds

\* renderProjectDetail(slug) on the state st the handler has written: cleanup,
\* rebuild, rebind (initDragAndDrop included)
renderProjectDetail(st, slug) ==
    RenderView(DetailDom(st, slug, env.now, env.tz),
               ReplaceSubtree(cleanupViewListeners(listeners), dragState),
               DetachedDragState(dragState), slug)

\* renderProjectsLanding()
renderProjectsLanding(st) ==
    RenderView(LandingDom(st),
               ReplaceSubtree(cleanupViewListeners(listeners), dragState),
               DetachedDragState(dragState), NULL)

\* a handler's write of the state st followed by renderProjectDetail(slug)
Commit(st, slug) == state' = st /\ renderProjectDetail(st, slug)

----
\* Drag-and-drop engine

\* the record of a handler run: its name, the task it was about, its arguments
Op(name, task) ==
    [op |-> name, task |-> task, target |-> NoTask, above |-> FALSE, stale |-> FALSE,
     outcome |-> "done", left |-> 0, width |-> 0, groupId |-> NULL, groupType |-> NULL]

\* the group of the rendered DOM that holds the row / card of a task
GroupOfRow(taskId) ==
    dom.groups[CHOOSE i \in 1..Len(dom.groups) : taskId \in Range(dom.groups[i].rows)]

RenderedRows == UNION { Range(dom.groups[i].rows) : i \in 1..Len(dom.groups) }

\* groupId.replace('assignee-', '')
StripAssigneePrefix(st, groupId) ==
    LET ids == { st.users[i].id : i \in 1..Len(st.users) }
               \cup { st.tasks[i].assignee_id : i \in 1..Len(st.tasks) }
    IN IF \E u \in ids : AssigneeGroupId(u) = groupId
       THEN CHOOSE u \in ids : AssigneeGroupId(u) = groupId
       ELSE groupId

\* a moveTask whose assignee branch also resets the priority of the task
MovedTaskResettingPriority(st, task, groupId, groupType) ==
    IF groupType = "status"
    THEN IF task.status_id # groupId
         THEN [task EXCEPT !.status_id = groupId, !.updated_at = clock] ELSE task
    ELSE IF groupType = "priority"
    THEN LET newPriorityId == IF groupId = "priority-none" THEN NULL ELSE groupId
         IN IF task.priority_id # newPriorityId
            THEN [task EXCEPT !.priority_id = newPriorityId, !.updated_at = clock] ELSE task
    ELSE IF groupType = "assignee"
    THEN LET newAssigneeId == IF groupId = "unassigned" THEN NULL
                              ELSE StripAssigneePrefix(st, groupId)
         IN IF task.assignee_id # newAssigneeId
            THEN [task EXCEPT !.assignee_id = newAssigneeId, !.priority_id = NULL,
                              !.updated_at = clock] ELSE task
    ELSE task

\* moveTask, first half: the dragged task after the field update of its group type
MovedTask(st, task, groupId, groupType) ==
    IF groupType = "status"
    THEN IF task.status_id # groupId
         THEN [task EXCEPT !.status_id = groupId, !.updated_at = clock] ELSE task
    ELSE IF groupType = "priority"
    THEN LET newPriorityId == IF groupId = "priority-none" THEN NULL ELSE groupId
         IN IF task.priority_id # newPriorityId
            THEN [task EXCEPT !.priority_id = newPriorityId, !.updated_at = clock] ELSE task
    ELSE IF groupType = "assignee"
    THEN LET newAssigneeId == IF groupId = "unassigned" THEN NULL
                              ELSE StripAssigneePrefix(st, groupId)
         IN IF task.assignee_id # newAssigneeId
            THEN [task EXCEPT !.assignee_id = newAssigneeId, !.updated_at = clock] ELSE task
    ELSE task

\* targetTasks of moveTask: the non-archived tasks of the project in the status
\* of the moved task, sorted by sort_order
TargetTasks(ts, task, projectId) ==
    SortBySortOrder(SeqFilter(ts, LAMBDA t :
        t.project_id = projectId /\ t.status_id = task.status_id /\ ~t.is_archived))

\* targetTasks.splice(taskIndex, 1) when the task is in the list
WithoutTask(targetTasks, taskIndex) ==
    IF taskIndex # 0 THEN RemoveAt(targetTasks, taskIndex) ELSE targetTasks

\* insertIndex of moveTask, 0-based
InsertIndex(targetTasks, relativeToTaskId, relativeIndex, insertBefore) ==
    IF relativeToTaskId # NoTask /\ relativeIndex # 0
    THEN (IF insertBefore THEN relativeIndex - 1 ELSE relativeIndex)
    ELSE Len(targetTasks)

\* targetTasks.splice(insertIndex, 0, task)
InsertTask(targetTasks, task, relativeToTaskId, insertBefore) ==
    InsertAt(targetTasks,
             InsertIndex(targetTasks, relativeToTaskId,
                         FindIndex(targetTasks, LAMBDA t : t.id = relativeToTaskId), insertBefore),
             task)

\* moveTask, second half: the reordered list of the task's status bucket
ReorderedBucket(ts, task, projectId, relativeToTaskId, insertBefore) ==
    InsertTask(WithoutTask(TargetTasks(ts, task, projectId),
                           FindIndex(TargetTasks(ts, task, projectId), LAMBDA t : t.id = task.id)),
               task, relativeToTaskId, insertBefore)

\* the sort_order moveTask writes to a task: its place in the bucket, if it has one
ReindexedTask(t, pos) == IF pos # 0 THEN [t EXCEPT !.sort_order = pos] ELSE t

\* t.sort_order = index + 1 for every task of the reordered bucket
Reindexed(ts, bucket) ==
    [i \in 1..Len(ts) |-> ReindexedTask(ts[i], FindIndex(bucket, LAMBDA b : b.id = ts[i].id))]

\* state.tasks with the task of the same id replaced by the updated object
WithTask(ts, task) == [i \in 1..Len(ts) |-> IF ts[i].id = task.id THEN task ELSE ts[i]]

\* state.tasks after the two halves of moveTask for the updated task
MovedTasks(ts, task, projectId, relativeToTaskId, insertBefore) ==
    Reindexed(ts, ReorderedBucket(ts, task, projectId, relativeToTaskId, insertBefore))

\* state.tasks after moveTask(taskId, groupId, groupType, relativeToTaskId, insertBefore)
moveTaskResult(st, taskId, groupId, groupType, relativeToTaskId, insertBefore) ==
    MovedTasks(WithTask(st.tasks, MovedTask(st, getTaskById(st, taskId), groupId, groupType)),
               MovedTask(st, getTaskById(st, taskId), groupId, groupType),
               getProjectBySlug(st, dragState.currentProjectSlug).id,
               relativeToTaskId, insertBefore)

\* what a handler leaves alone when it returns before touching the store
Ignored ==
    UNCHANGED <<state, dragState, renderVars, modal, env, clock, idCounter, toast>>

\* the toast of moveTask: shown when the field of the group type changed
MoveToast(task, moved, groupType) ==
    IF moved # task THEN [message |-> "moved:" \o groupType, type |-> "success"] ELSE toast

\* a moveTask that reports a dragged id without a task in an error toast
moveTaskReportingMissingTask(taskId, groupId, groupType, relativeToTaskId, insertBefore) ==
    IF ~hasTask(state, taskId) \/ ~hasProjectSlug(state, dragState.currentProjectSlug)
    THEN /\ toast' = [message |-> "task-not-found", type |-> "error"]
         /\ UNCHANGED <<state, dragState, renderVars, modal, env, clock, idCounter>>
    ELSE /\ Commit([state EXCEPT !.tasks = moveTaskResult(state, taskId, groupId, groupType,
                                                          relativeToTaskId, insertBefore)],
                   dragState.currentProjectSlug)
         /\ toast' = MoveToast(getTaskById(state, taskId),
                               MovedTask(state, getTaskById(state, taskId), groupId, groupType),
                               groupType)
         /\ UNCHANGED <<modal, env, clock, idCounter>>

\* moveTask(taskId, groupId, groupType, relativeToTaskId, insertBefore)
moveTask(taskId, groupId, groupType, relativeToTaskId, insertBefore) ==
    IF ~hasTask(state, taskId) \/ ~hasProjectSlug(state, dragState.currentProjectSlug)
    THEN Ignored
    ELSE /\ Commit([state EXCEPT !.tasks = moveTaskResult(state, taskId, groupId, groupType,
                                                          relativeToTaskId, insertBefore)],
                   dragState.currentProjectSlug)
         /\ toast' = MoveToast(getTaskById(state, taskId),
                               MovedTask(state, getTaskById(state, taskId), groupId, groupType),
                               groupType)
         /\ UNCHANGED <<modal, env, clock, idCounter>>

\* handleDragStart on a rendered task row or board card
HandleDragStart(taskId) ==
    /\ dom.view = "detail" /\ dom.tab \in {"tasks", "board"}
    /\ modal.kind = "none"
    /\ dnd \in {"none", "dropped"}
    /\ taskId \in RenderedRows
    /\ env.gestures < MaxGestures
    /\ env' = [env EXCEPT !.gestures = @ + 1]
    /\ dnd' = "dragging"
    /\ lastOp' = Op("handleDragStart", taskId)
    /\ IF ~hasTask(state, taskId)
       THEN UNCHANGED <<dragState, listeners>>
       ELSE /\ dragState' = [dragState EXCEPT !.draggingTaskId = taskId,
                                              !.sourceStatusId = getTaskById(state, taskId).status_id,
                                              !.dragElement = "attached"]
            /\ listeners' = [listeners EXCEPT !["drag-element:dnd"] = 0]
    /\ UNCHANGED <<state, dom, viewAbortController, ganttDragState, modal, clock,
                   idCounter, toast>>

\* handleDragEnd: dragend is dispatched to the source node of the drag, in the
\* document or not
HandleDragEnd ==
    /\ dnd \in {"dragging", "dropped"}
    /\ dnd' = "none"
    /\ lastOp' = [Op("handleDragEnd", dragState.draggingTaskId) EXCEPT
                      !.stale = dragState.dragElement = "detached"]
    /\ dragState' = [dragState EXCEPT !.draggingTaskId = NoTask, !.sourceStatusId = NULL,
                                      !.dragElement = NULL]
    /\ listeners' = [listeners EXCEPT !["drag-element:dnd"] = 0]
    /\ UNCHANGED <<state, dom, viewAbortController, ganttDragState, modal, env, clock,
                   idCounter, toast>>

\* a drop handler that does not compare the target with the dragged task
DropOnTaskWithoutSelfTest(name, tab, targetTaskId, isAbove) ==
    /\ dom.view = "detail" /\ dom.tab = tab
    /\ dnd = "dragging"
    /\ targetTaskId \in RenderedRows
    /\ dnd' = "dropped"
    /\ lastOp' = [Op(name, dragState.draggingTaskId) EXCEPT
                      !.target = targetTaskId, !.above = isAbove,
                      !.groupId = GroupOfRow(targetTaskId).id,
                      !.groupType = GroupOfRow(targetTaskId).type]
    /\ IF ~hasTask(state, targetTaskId)
       THEN Ignored
       ELSE moveTask(dragState.draggingTaskId, GroupOfRow(targetTaskId).id,
                     GroupOfRow(targetTaskId).type, targetTaskId, isAbove)

\* handleTaskDrop (list view) and handleCardDrop (board view): a drop on the row
\* or card of targetTaskId, above or below its vertical midpoint
DropOnTask(name, tab, targetTaskId, isAbove) ==
    /\ dom.view = "detail" /\ dom.tab = tab
    /\ dnd = "dragging"
    /\ targetTaskId \in RenderedRows
    /\ dnd' = "dropped"
    /\ lastOp' = [Op(name, dragState.draggingTaskId) EXCEPT
                      !.target = targetTaskId, !.above = isAbove,
                      !.groupId = GroupOfRow(targetTaskId).id,
                      !.groupType = GroupOfRow(targetTaskId).type]
    /\ IF targetTaskId = dragState.draggingTaskId \/ ~hasTask(state, targetTaskId)
       THEN Ignored
       ELSE moveTask(dragState.draggingTaskId, GroupOfRow(targetTaskId).id,
                     GroupOfRow(targetTaskId).type, targetTaskId, isAbove)

HandleTaskDrop(targetTaskId, isAbove) == DropOnTask("handleTaskDrop", "tasks", targetTaskId, isAbove)

HandleCardDrop(targetTaskId, isAbove) == DropOnTask("handleCardDrop", "board", targetTaskId, isAbove)

\* handleListDrop (list view) and handleColumnDrop (board view): a drop on the
\* empty area of the g-th group
DropOnGroup(name, tab, g) ==
    /\ dom.view = "detail" /\ dom.tab = tab
    /\ dnd = "dragging"
    /\ g \in 1..Len(dom.groups)
    /\ dnd' = "dropped"
    /\ lastOp' = [Op(name, dragState.draggingTaskId) EXCEPT
                      !.groupId = dom.groups[g].id, !.groupType = dom.groups[g].type]
    /\ moveTask(dragState.draggingTaskId, dom.groups[g].id, dom.groups[g].type, NoTask, FALSE)

HandleListDrop(g) == DropOnGroup("handleListDrop", "tasks", g)

HandleColumnDrop(g) == DropOnGroup("handleColumnDrop", "board", g)

\* A drop event also reaches the handlers when the drag did not start on a task
\* row or card (a file, a text selection) and no task drag is under way: the
\* dragover handlers accept every drag.

\* handleTaskDrop / handleCardDrop for such a drop on the row or card of targetTaskId
DropOfOtherDragOnTask(name, tab, targetTaskId, isAbove) ==
    /\ dom.view = "detail" /\ dom.tab = tab
    /\ modal.kind = "none"
    /\ dnd = "none"
    /\ targetTaskId \in RenderedRows
    /\ UNCHANGED dnd
    /\ lastOp' = [Op(name, dragState.draggingTaskId) EXCEPT
                      !.target = targetTaskId, !.above = isAbove,
                      !.groupId = GroupOfRow(targetTaskId).id,
                      !.groupType = GroupOfRow(targetTaskId).type]
    /\ IF targetTaskId = dragState.draggingTaskId \/ ~hasTask(state, targetTaskId)
       THEN Ignored
       ELSE moveTask(dragState.draggingTaskId, GroupOfRow(targetTaskId).id,
                     GroupOfRow(targetTaskId).type, targetTaskId, isAbove)

\* handleListDrop / handleColumnDrop for such a drop on the g-th group
DropOfOtherDragOnGroup(name, tab, g) ==
    /\ dom.view = "detail" /\ dom.tab = tab
    /\ modal.kind = "none"
    /\ dnd = "none"
    /\ g \in 1..Len(dom.groups)
    /\ UNCHANGED dnd
    /\ lastOp' = [Op(name, dragState.draggingTaskId) EXCEPT
                      !.groupId = dom.groups[g].id, !.groupType = dom.groups[g].type]
    /\ moveTask(dragState.draggingTaskId, dom.groups[g].id, dom.groups[g].type, NoTask, FALSE)

----
\* Toolbar, tab and navigation handlers

OnDetail(slug) == dom.view = "detail" /\ dom.slug = slug

\* a click can reach the view: no modal overlay, no mouse gesture under way
Clickable ==
    /\ modal.kind = "none"
    /\ dnd # "dragging"
    /\ ganttDragState.taskId = NoTask

\* what a handler of the view leaves alone besides the state and the render
ViewHandlerFrame == UNCHANGED <<dnd, modal, env, clock, idCounter>>

\* handleRouteChange for #/projects
NavigateToLanding ==
    /\ Clickable
    /\ lastOp' = Op("renderProjectsLanding", NoTask)
    /\ UNCHANGED <<state, toast>>
    /\ ViewHandlerFrame
    /\ renderProjectsLanding(state)

\* handleRouteChange for #/projects/<slug>; a click on a project card ends here
NavigateToProject(slug) ==
    /\ Clickable
    /\ lastOp' = Op("renderProjectDetail", NoTask)
    /\ UNCHANGED <<state, toast>>
    /\ ViewHandlerFrame
    /\ renderProjectDetail(state, slug)

\* handleRouteChange for a hashchange that no click in the page has caused: the
\* browser's back or forward command, given by keyboard also while a mouse
\* button is held
HistoryNavigation(slug) ==
    /\ dom.view = "detail" /\ dom.slug # slug
    /\ modal.kind = "none"
    /\ dnd = "none"
    /\ lastOp' = Op("handleRouteChange", NoTask)
    /\ UNCHANGED <<state, toast>>
    /\ ViewHandlerFrame
    /\ renderProjectDetail(state, slug)

\* click on a .project-tab
SwitchTab(slug, tabName) ==
    /\ OnDetail(slug) /\ Clickable
    /\ Commit([state EXCEPT !.currentProjectTab = tabName], slug)
    /\ lastOp' = Op("switchTab", NoTask)
    /\ UNCHANGED toast
    /\ ViewHandlerFrame

\* click on an item of the group-by dropdown (list view)
SetGroupBy(slug, newGroupBy) ==
    /\ OnDetail(slug) /\ Clickable /\ dom.tab = "tasks"
    /\ hasProjectSlug(state, slug)
    /\ Commit([state EXCEPT !.projectGroupBy[getProjectBySlug(state, slug).id] = newGroupBy], slug)
    /\ toast' = [message |-> "grouped", type |-> "success"]
    /\ lastOp' = Op("setGroupBy", NoTask)
    /\ ViewHandlerFrame

\* state.projectSort[projectId] after a click on the item `field` of the sort dropdown
\* click on an option of the swimlane dropdown of the board toolbar
SetBoardSwimlane(slug, newSwimlane) ==
    /\ OnDetail(slug) /\ Clickable /\ dom.tab = "board"
    /\ hasProjectSlug(state, slug)
    /\ Commit([state EXCEPT !.boardSwimlane[getProjectBySlug(state, slug).id] = newSwimlane],
              slug)
    /\ toast' = [message |-> "swimlane:" \o newSwimlane, type |-> "success"]
    /\ lastOp' = Op("setBoardSwimlane", NoTask)
    /\ ViewHandlerFrame

\* the click handler without the branch that flips the direction
NextSortAlwaysAscending(current, field) == [field |-> field, direction |-> "asc"]

NextSort(current, field) ==
    IF field = current.field /\ field # "manual"
    THEN [field |-> field, direction |-> IF current.direction = "asc" THEN "desc" ELSE "asc"]
    ELSE [field |-> field, direction |-> "asc"]

\* click on an item of the sort dropdown (showSortDropdown) of the list view
SetProjectSort(slug, field) ==
    /\ OnDetail(slug) /\ Clickable /\ dom.tab = "tasks"
    /\ hasProjectSlug(state, slug)
    /\ Commit([state EXCEPT !.projectSort[getProjectBySlug(state, slug).id] =
                   NextSort(@, field)], slug)
    /\ toast' = [message |-> "sorted:" \o field, type |-> "success"]
    /\ lastOp' = Op("setProjectSort", NoTask)
    /\ ViewHandlerFrame

\* change of the "Show archived" checkbox
ToggleArchived(slug, checked) ==
    /\ OnDetail(slug) /\ Clickable /\ dom.tab \in {"tasks", "board"}
    /\ lastOp' = Op("toggleArchived", NoTask)
    /\ UNCHANGED toast
    /\ ViewHandlerFrame
    /\ IF hasProjectSlug(state, slug)
       THEN Commit([state EXCEPT
                       !.showArchivedTasks[getProjectBySlug(state, slug).id] = checked], slug)
       ELSE UNCHANGED <<state, dragState, renderVars>>

\* change of the "Assigned to me" checkbox
ToggleAssignedToMe(slug, checked) ==
    /\ OnDetail(slug) /\ Clickable /\ dom.tab \in {"tasks", "board"}
    /\ lastOp' = Op("toggleAssignedToMe", NoTask)
    /\ UNCHANGED toast
    /\ ViewHandlerFrame
    /\ IF hasProjectSlug(state, slug)
       THEN Commit([state EXCEPT !.assignedToMe[getProjectBySlug(state, slug).id] = checked], slug)
       ELSE UNCHANGED <<state, dragState, renderVars>>

\* the checkboxes showAssigneeFilterDropdown offers: the known users that are
\* assignee of a task of the project, and 'unassigned' when a task has none
AssigneeFilterOptions(st, projectId) ==
    LET allTasks == SeqFilter(st.tasks, LAMBDA t : t.project_id = projectId)
    IN { allTasks[i].assignee_id : i \in { j \in 1..Len(allTasks) :
             allTasks[j].assignee_id # NULL /\ hasUser(st, allTasks[j].assignee_id) } }
       \cup (IF \E i \in 1..Len(allTasks) : allTasks[i].assignee_id = NULL
             THEN {"unassigned"} ELSE {})

\* change of a checkbox of the assignee filter dropdown
ToggleAssigneeFilter(slug, assigneeId, isChecked) ==
    /\ OnDetail(slug) /\ Clickable /\ dom.tab \in {"tasks", "board"}
    /\ hasProjectSlug(state, slug)
    /\ assigneeId \in AssigneeFilterOptions(state, getProjectBySlug(state, slug).id)
    /\ Commit([state EXCEPT !.assigneeFilter[getProjectBySlug(state, slug).id] =
                   IF isChecked THEN @ \cup {assigneeId} ELSE @ \ {assigneeId}], slug)
    /\ lastOp' = Op("toggleAssigneeFilter", NoTask)
    /\ UNCHANGED toast
    /\ ViewHandlerFrame

\* the debounced write of the search input's value
SearchTasks(slug, value) ==
    /\ OnDetail(slug) /\ Clickable /\ dom.tab \in {"tasks", "board"}
    /\ hasProjectSlug(state, slug)
    /\ Commit([state EXCEPT !.taskSearch[getProjectBySlug(state, slug).id] = value], slug)
    /\ lastOp' = Op("searchTasks", NoTask)
    /\ UNCHANGED toast
    /\ ViewHandlerFrame

----
\* Task creation and task field handlers

\* id of a task created by the session: generateId is unique per call
NewTaskId == idCounter.task + 1

\* id of the n-th status created by the session
NewStatusId(n) == "status-" \o ToString(n)

\* statuses.find(s => s.category === 'todo') || statuses[0], "null" for undefined
DefaultStatusId(st, projectId) ==
    LET sts == getStatusesForProject(st, projectId)
        i == FindIndex(sts, LAMBDA s : s.category = "todo")
    IN IF i # 0 THEN sts[i].id ELSE IF sts # <<>> THEN sts[1].id ELSE NULL

RECURSIVE MaxSequenceId(_)
\* projectTasks.reduce((max, t) => Math.max(max, t.sequence_id || 0), 0)
MaxSequenceId(ts) ==
    IF ts = <<>> THEN 0
    ELSE LET m == MaxSequenceId(Tail(ts))
         IN IF Head(ts).sequence_id > m THEN Head(ts).sequence_id ELSE m

\* the object literal of a new task; sort_order and key stay undefined
NewTask(st, projectId, title, statusId, priorityId, assigneeId, dueDate) ==
    [id |-> NewTaskId, project_id |-> projectId,
     sequence_id |-> MaxSequenceId(getTasksForProject(st, projectId)) + 1,
     title |-> title, description |-> <<>>, key |-> NoString,
     status_id |-> statusId, priority_id |-> priorityId, assignee_id |-> assigneeId,
     due_date |-> dueDate, start_date |-> NoDate, label_ids |-> <<>>,
     sort_order |-> 0, is_archived |-> FALSE,
     created_at |-> clock, updated_at |-> clock]

\* showQuickAddTask: click on "Add Task" of the g-th rendered group or column
ShowQuickAddTask(slug, g) ==
    /\ OnDetail(slug) /\ Clickable /\ g \in 1..Len(dom.groups)
    /\ dom.groups[g].id # dom.quickAdd
    /\ Commit([state EXCEPT !.quickAddStatus = dom.groups[g].id], slug)
    /\ lastOp' = Op("showQuickAddTask", NoTask)
    /\ UNCHANGED toast
    /\ ViewHandlerFrame

\* the fields handleQuickAddTask derives from the group it was opened in
QuickAddTask(st, projectId, groupId, groupType, title) ==
    LET defaultStatus == DefaultStatusId(st, projectId)
        statusId == IF groupType = "status" THEN groupId ELSE defaultStatus
        priorityId == IF groupType = "priority" /\ groupId # "priority-none" THEN groupId ELSE NULL
        assigneeId == IF groupType = "assignee" /\ groupId # "unassigned"
                      THEN StripAssigneePrefix(st, groupId) ELSE NULL
    IN NewTask(st, projectId, title, statusId, priorityId, assigneeId, NoDate)

\* handleQuickAddTask: Enter or Save in the rendered quick-add input, whose value is `value`
HandleQuickAddTask(slug, value) ==
    /\ OnDetail(slug) /\ Clickable /\ dom.quickAdd # NULL
    /\ UNCHANGED <<dnd, modal, env, clock>>
    /\ LET i == CHOOSE j \in 1..Len(dom.groups) : dom.groups[j].id = dom.quickAdd
           group == dom.groups[i]
           title == Trim(value)
       IN IF title = <<>>
          THEN \* hideQuickAddTask(projectSlug)
               /\ Commit([state EXCEPT !.quickAddStatus = NULL], slug)
               /\ lastOp' = Op("hideQuickAddTask", NoTask)
               /\ UNCHANGED <<idCounter, toast>>
          ELSE IF ~hasProjectSlug(state, slug)
          THEN /\ lastOp' = Op("handleQuickAddTask", NoTask)
               /\ UNCHANGED <<state, dragState, renderVars, idCounter, toast>>
          ELSE /\ idCounter.task < MaxTaskIds
               /\ Commit([state EXCEPT
                              !.tasks = Append(@, QuickAddTask(state,
                                                     getProjectBySlug(state, slug).id,
                                                     group.id, group.type, title)),
                              !.quickAddStatus = NULL], slug)
               /\ idCounter' = [idCounter EXCEPT !.task = NewTaskId]
               /\ toast' = [message |-> "created", type |-> "success"]
               /\ lastOp' = Op("handleQuickAddTask", NewTaskId)

\* showCreateTaskModal: click on "Create Task"
ShowCreateTaskModal(slug) ==
    /\ OnDetail(slug) /\ Clickable
    /\ hasProjectSlug(state, slug)
    /\ modal' = [kind |-> "create-task", slug |-> slug, listeners |-> 1]
    /\ lastOp' = Op("showCreateTaskModal", NoTask)
    /\ UNCHANGED <<state, dragVars, renderVars, env, clock, idCounter, toast>>

\* closeModal: Cancel or the close button of the open modal
CloseModal ==
    /\ modal.kind \notin {"none", "delete-project"}
    /\ modal' = [kind |-> "none", slug |-> NULL, listeners |-> 0]
    /\ lastOp' = Op("closeModal", NoTask)
    /\ UNCHANGED <<state, dragVars, renderVars, env, clock, idCounter, toast>>

\* handleCreateTask: submit of the create-task form with the given field values
HandleCreateTask(value, statusId, assigneeId) ==
    /\ modal.kind = "create-task"
    /\ hasProjectSlug(state, modal.slug)
    /\ statusId \in { s.id : s \in Range(getStatusesForProject(state,
                                            getProjectBySlug(state, modal.slug).id)) }
    /\ UNCHANGED <<dnd, env, clock>>
    /\ LET title == Trim(value)
       IN IF title = <<>>
          THEN /\ toast' = [message |-> "title-required", type |-> "error"]
               /\ lastOp' = Op("handleCreateTask", NoTask)
               /\ UNCHANGED <<state, dragState, renderVars, modal, idCounter>>
          ELSE /\ idCounter.task < MaxTaskIds
               /\ Commit([state EXCEPT
                              !.tasks = Append(@, NewTask(state,
                                                     getProjectBySlug(state, modal.slug).id,
                                                     title, statusId, NULL, assigneeId, NoDate))],
                          modal.slug)
               /\ idCounter' = [idCounter EXCEPT !.task = NewTaskId]
               /\ modal' = [kind |-> "none", slug |-> NULL, listeners |-> 0]
               /\ toast' = [message |-> "created", type |-> "success"]
               /\ lastOp' = Op("handleCreateTask", NewTaskId)

\* archiveTask(taskId, projectSlug), from the panel of a rendered task
ArchiveTask(taskId, slug) ==
    /\ OnDetail(slug) /\ Clickable
    /\ taskId \in RenderedRows
    /\ lastOp' = Op("archiveTask", taskId)
    /\ ViewHandlerFrame
    /\ IF ~hasTask(state, taskId)
       THEN UNCHANGED <<state, dragState, renderVars, toast>>
       ELSE /\ Commit([state EXCEPT !.tasks[getTaskIndex(state, taskId)] =
                           [@ EXCEPT !.is_archived = TRUE, !.updated_at = clock]], slug)
            /\ toast' = [message |-> "archived", type |-> "success"]

\* updateTaskStatus(taskId, newStatusId, projectSlug), from the status dropdown
\* of a rendered task
UpdateTaskStatus(taskId, newStatusId, slug) ==
    /\ OnDetail(slug) /\ Clickable
    /\ taskId \in RenderedRows
    /\ hasProjectSlug(state, slug)
    /\ newStatusId \in { s.id : s \in Range(getStatusesForProject(state,
                                                getProjectBySlug(state, slug).id)) }
    /\ lastOp' = Op("updateTaskStatus", taskId)
    /\ ViewHandlerFrame
    /\ IF ~hasTask(state, taskId)
       THEN UNCHANGED <<state, dragState, renderVars, toast>>
       ELSE /\ Commit([state EXCEPT !.tasks[getTaskIndex(state, taskId)] =
                           [@ EXCEPT !.status_id = newStatusId, !.updated_at = clock]], slug)
            /\ toast' = [message |-> "moved", type |-> "success"]

\* state.tasks after updateTaskField(taskId, field, value, projectSlug) for the
\* date fields; unchanged when the task is missing or the value is the old one
updateTaskField(ts, taskId, field, value) ==
    LET i == FindIndex(ts, LAMBDA t : t.id = taskId)
    IN IF i = 0 THEN ts
       ELSE IF field = "start_date"
       THEN (IF ts[i].start_date = value THEN ts
             ELSE [ts EXCEPT ![i] = [@ EXCEPT !.start_date = value, !.updated_at = clock]])
       ELSE (IF ts[i].due_date = value THEN ts
             ELSE [ts EXCEPT ![i] = [@ EXCEPT !.due_date = value, !.updated_at = clock]])

\* the passage of time between two events
Tick ==
    /\ clock < MaxClock
    /\ clock' = clock + 1
    /\ UNCHANGED <<state, dragVars, renderVars, modal, env, idCounter, toast, lastOp>>

----
\* Manage-workflow modal

\* showManageWorkflowModal: click on .btn-manage-workflow; the modal's fixed
\* buttons get one listener each
ShowManageWorkflowModal(slug) ==
    /\ OnDetail(slug) /\ Clickable /\ dom.tab \in {"tasks", "board"}
    /\ hasProjectSlug(state, slug)
    /\ modal' = [kind |-> "workflow", slug |-> slug, listeners |-> 1]
    /\ lastOp' = Op("showManageWorkflowModal", NoTask)
    /\ UNCHANGED <<state, dragVars, renderVars, env, clock, idCounter, toast>>

RECURSIVE MaxSortOrder(_)
\* statuses.reduce((max, s) => Math.max(max, s.sort_order || 0), 0)
MaxSortOrder(sts) ==
    IF sts = <<>> THEN 0
    ELSE LET m == MaxSortOrder(Tail(sts))
         IN IF Head(sts).sort_order > m THEN Head(sts).sort_order ELSE m

\* state.statuses after n runs of addNewStatus(projectSlug), the first of them
\* creating the status numbered `first`
RECURSIVE addNewStatus(_, _, _, _)
addNewStatus(sts, projectId, first, n) ==
    IF n = 0 THEN sts
    ELSE LET own == SeqFilter(sts, LAMBDA s : s.project_id = projectId)
             newStatus == [id |-> NewStatusId(first), project_id |-> projectId,
                           category |-> "todo", sort_order |-> MaxSortOrder(own) + 1]
         IN addNewStatus(Append(sts, newStatus), projectId, first + 1, n - 1)

\* click on "Add Status": every listener the button has collected runs
\* addNewStatus, and every run rebinds the modal's buttons once more
AddNewStatus ==
    /\ modal.kind = "workflow"
    /\ hasProjectSlug(state, modal.slug)
    /\ idCounter.status + modal.listeners <= MaxNewStatuses
    /\ state' = [state EXCEPT !.statuses =
                     addNewStatus(@, getProjectBySlug(state, modal.slug).id,
                                  idCounter.status + 1, modal.listeners)]
    /\ idCounter' = [idCounter EXCEPT !.status = @ + modal.listeners]
    /\ modal' = [modal EXCEPT !.listeners = 2 * @]
    /\ toast' = [message |-> "status-added", type |-> "success"]
    /\ lastOp' = Op("addNewStatus", NoTask)
    /\ UNCHANGED <<dragVars, renderVars, env, clock>>

\* deleteWorkflowStatus with the guard statuses.length < 1: the only status of
\* a project can be deleted
deleteWorkflowStatusBelowOne(st, statusId, projectId, confirmed) ==
    LET sts == getStatusesForProject(st, projectId)
        tasksWithStatus == { i \in 1..Len(st.tasks) : st.tasks[i].status_id = statusId }
        firstIndex == FindIndex(sts, LAMBDA s : s.id # statusId)
        moved == IF tasksWithStatus # {} /\ firstIndex # 0
                 THEN [i \in 1..Len(st.tasks) |->
                          IF i \in tasksWithStatus
                          THEN [st.tasks[i] EXCEPT !.status_id = sts[firstIndex].id]
                          ELSE st.tasks[i]]
                 ELSE st.tasks
        index == FindIndex(st.statuses, LAMBDA s : s.id = statusId)
    IN IF Len(sts) < 1
       THEN [state |-> st, outcome |-> "rejected"]
       ELSE IF tasksWithStatus # {} /\ ~confirmed
       THEN [state |-> st, outcome |-> "cancelled"]
       ELSE [state |-> [st EXCEPT !.tasks = moved,
                                  !.statuses = IF index # 0 THEN RemoveAt(@, index) ELSE @],
             outcome |-> "deleted"]

\* deleteWorkflowStatus that removes the status and leaves its tasks as they are
deleteWorkflowStatusKeepingTasks(st, statusId, projectId, confirmed) ==
    LET sts == getStatusesForProject(st, projectId)
        tasksWithStatus == { i \in 1..Len(st.tasks) : st.tasks[i].status_id = statusId }
        index == FindIndex(st.statuses, LAMBDA s : s.id = statusId)
    IN IF Len(sts) <= 1
       THEN [state |-> st, outcome |-> "rejected"]
       ELSE IF tasksWithStatus # {} /\ ~confirmed
       THEN [state |-> st, outcome |-> "cancelled"]
       ELSE [state |-> [st EXCEPT !.statuses = IF index # 0 THEN RemoveAt(@, index) ELSE @],
             outcome |-> "deleted"]

\* the outcome of deleteWorkflowStatus(statusId, projectSlug) on the state st,
\* with the user's answer to confirm(): the new state and whether it was rejected
deleteWorkflowStatus(st, statusId, projectId, confirmed) ==
    LET sts == getStatusesForProject(st, projectId)
        tasksWithStatus == { i \in 1..Len(st.tasks) : st.tasks[i].status_id = statusId }
        firstIndex == FindIndex(sts, LAMBDA s : s.id # statusId)
        moved == IF tasksWithStatus # {} /\ firstIndex # 0
                 THEN [i \in 1..Len(st.tasks) |->
                          IF i \in tasksWithStatus
                          THEN [st.tasks[i] EXCEPT !.status_id = sts[firstIndex].id]
                          ELSE st.tasks[i]]
                 ELSE st.tasks
        index == FindIndex(st.statuses, LAMBDA s : s.id = statusId)
    IN IF Len(sts) <= 1
       THEN [state |-> st, outcome |-> "rejected"]
       ELSE IF tasksWithStatus # {} /\ ~confirmed
       THEN [state |-> st, outcome |-> "cancelled"]
       ELSE [state |-> [st EXCEPT !.tasks = moved,
                                  !.statuses = IF index # 0 THEN RemoveAt(@, index) ELSE @],
             outcome |-> "deleted"]

\* click on the delete button of a status listed in the modal
DeleteWorkflowStatus(statusId, confirmed) ==
    /\ modal.kind = "workflow"
    /\ hasProjectSlug(state, modal.slug)
    /\ LET projectId == getProjectBySlug(state, modal.slug).id
           result == deleteWorkflowStatus(state, statusId, projectId, confirmed)
       IN /\ statusId \in { s.id : s \in Range(getStatusesForProject(state, projectId)) }
          /\ state' = result.state
          /\ toast' = IF result.outcome = "rejected"
                      THEN [message |-> "cannot-delete-last-status", type |-> "error"]
                      ELSE IF result.outcome = "deleted"
                      THEN [message |-> "status-deleted", type |-> "success"]
                      ELSE toast
          /\ modal' = IF result.outcome = "deleted"
                      THEN [modal EXCEPT !.listeners = @ + 1] ELSE modal
          /\ lastOp' = [Op("deleteWorkflowStatus", NoTask) EXCEPT !.outcome = result.outcome]
    /\ UNCHANGED <<dragVars, renderVars, env, clock, idCounter>>

\* state.statuses after saveWorkflowChanges: sort_order = position in the list
SavedStatuses(st, projectId) ==
    LET items == getStatusesForProject(st, projectId)
    IN [i \in 1..Len(st.statuses) |->
           LET pos == FindIndex(items, LAMBDA s : s.id = st.statuses[i].id)
           IN IF pos # 0 THEN [st.statuses[i] EXCEPT !.sort_order = pos] ELSE st.statuses[i]]

\* saveWorkflowChanges(projectSlug): click on "Save Changes"
SaveWorkflowChanges ==
    /\ modal.kind = "workflow"
    /\ hasProjectSlug(state, modal.slug)
    /\ Commit([state EXCEPT !.statuses =
                   SavedStatuses(state, getProjectBySlug(state, modal.slug).id)], modal.slug)
    /\ modal' = [kind |-> "none", slug |-> NULL, listeners |-> 0]
    /\ toast' = [message |-> "workflow-updated", type |-> "success"]
    /\ lastOp' = Op("saveWorkflowChanges", NoTask)
    /\ UNCHANGED <<dnd, env, clock, idCounter>>

----
\* Gantt bar drag and resize (initGanttBarDragResize)

\* 2 %, the minimum width of a bar, and 10 %, the width read from a bar without one
MinWidth(totalDays) == (2 * DayUnits * totalDays) \div 100
FallbackWidth(totalDays) == (10 * DayUnits * totalDays) \div 100

\* click on a .roadmap-zoom-btn
SetRoadmapScale(slug, newScale) ==
    /\ OnDetail(slug) /\ Clickable /\ dom.hasGantt
    /\ lastOp' = Op("setRoadmapScale", NoTask)
    /\ UNCHANGED toast
    /\ ViewHandlerFrame
    /\ IF state.roadmapScale # newScale
       THEN Commit([state EXCEPT !.roadmapScale = newScale, !.roadmapOffset = 0], slug)
       ELSE UNCHANGED <<state, dragState, renderVars>>

\* click on [data-action="roadmap-prev"], "roadmap-next" or "roadmap-today": the
\* offset becomes newOffset
SetRoadmapOffset(slug, name, newOffset) ==
    /\ OnDetail(slug) /\ Clickable /\ dom.hasGantt
    /\ newOffset \in (0 - MaxOffset)..MaxOffset
    /\ Commit([state EXCEPT !.roadmapOffset = newOffset], slug)
    /\ lastOp' = Op(name, NoTask)
    /\ UNCHANGED toast
    /\ ViewHandlerFrame

RoadmapPrev(slug) == SetRoadmapOffset(slug, "roadmapPrev", state.roadmapOffset - 1)
RoadmapNext(slug) == SetRoadmapOffset(slug, "roadmapNext", state.roadmapOffset + 1)
RoadmapToday(slug) == SetRoadmapOffset(slug, "roadmapToday", 0)

\* mousedown on the bar of the b-th rendered Gantt bar, on a handle or the body
GanttMouseDown(b, dragType) ==
    /\ dom.view = "detail" /\ dom.hasGantt
    /\ Clickable
    /\ b \in 1..Len(dom.bars)
    /\ env.gestures < MaxGestures
    /\ env' = [env EXCEPT !.gestures = @ + 1]
    /\ lastOp' = Op("ganttMouseDown", dom.bars[b].taskId)
    /\ IF ~hasTask(state, dom.bars[b].taskId)
       THEN UNCHANGED ganttDragState
       ELSE ganttDragState' =
                [taskId |-> dom.bars[b].taskId, dragType |-> dragType, bar |-> b,
                 initialLeft |-> dom.bars[b].left,
                 initialWidth |-> IF dom.bars[b].width <= 0
                                  THEN FallbackWidth(dom.totalDays) ELSE dom.bars[b].width]
    /\ UNCHANGED <<state, dragVars, dom, viewAbortController, listeners, modal, clock,
                   idCounter, toast>>

\* bar.style after a mousemove that is deltaX away from the mousedown
MovedBar(bar, g, delta, totalDays) ==
    LET total == DayUnits * totalDays
    IN IF g.dragType = "move"
       THEN [bar EXCEPT !.left = Max(0, Min(total - g.initialWidth, g.initialLeft + delta))]
       ELSE IF g.dragType = "resize-left"
       THEN (IF g.initialWidth - delta >= MinWidth(totalDays)
             THEN [bar EXCEPT !.left = Max(0, g.initialLeft + delta),
                              !.width = g.initialWidth - delta]
             ELSE bar)
       ELSE [bar EXCEPT !.width = Min(Max(MinWidth(totalDays), g.initialWidth + delta),
                                      total - g.initialLeft)]

\* mousemove on the document during a gesture
GanttMouseMove(delta) ==
    /\ ganttDragState.taskId # NoTask
    /\ dom' = [dom EXCEPT !.bars[ganttDragState.bar] =
                   MovedBar(@, ganttDragState, delta, dom.totalDays)]
    /\ lastOp' = Op("ganttMouseMove", ganttDragState.taskId)
    /\ UNCHANGED <<state, dragVars, viewAbortController, listeners, ganttDragState, modal,
                   env, clock, idCounter, toast>>

\* the dates the mouseup handler computes from the final bar position
ReleaseDates(bar, timelineStart) ==
    [start_date |-> formatDateISO(pixelToDate(bar.left, timelineStart)),
     due_date |-> formatDateISO(pixelToDate(bar.left + bar.width, timelineStart))]

\* state.tasks after the two updateTaskField calls of the mouseup handler
ReleasedTasks(ts, taskId, dates) ==
    updateTaskField(updateTaskField(ts, taskId, "start_date", dates.start_date),
                    taskId, "due_date", dates.due_date)

\* mouseup on the document: both dates are written, the view is rendered
GanttMouseUp ==
    /\ ganttDragState.taskId # NoTask
    /\ Commit([state EXCEPT !.tasks =
                   ReleasedTasks(@, ganttDragState.taskId,
                                 ReleaseDates(dom.bars[ganttDragState.bar], dom.timelineStart))],
              dom.slug)
    /\ lastOp' = [Op("ganttMouseUp", ganttDragState.taskId) EXCEPT
                      !.left = dom.bars[ganttDragState.bar].left,
                      !.width = dom.bars[ganttDragState.bar].width]
    /\ toast' = [message |-> "dates-updated", type |-> "success"]
    /\ UNCHANGED <<dnd, modal, env, clock, idCounter>>

----
\* Projects: creation, settings and deletion

\* a project record of the store
Project(id, name, identifier, slug, at) ==
    [id |-> id, name |-> name, identifier |-> identifier, slug |-> slug,
     created_at |-> at, updated_at |-> at]

hasProject(st, id) == \E i \in 1..Len(st.projects) : st.projects[i].id = id
getProjectById(st, id) == st.projects[FindIndex(st.projects, LAMBDA p : p.id = id)]

\* click on [data-action="create-project"] of the landing page
ShowCreateProjectModal ==
    /\ dom.view = "landing" /\ Clickable
    /\ modal' = [kind |-> "create-project", slug |-> NULL, listeners |-> 1]
    /\ lastOp' = Op("showCreateProjectModal", NoTask)
    /\ UNCHANGED <<state, dragVars, renderVars, env, clock, idCounter, toast>>

\* the four default statuses handleCreateProject pushes for a new project, the
\* first of them numbered `first`
DefaultStatuses(projectId, first) ==
    << [id |-> NewStatusId(first), project_id |-> projectId,
        category |-> "todo", sort_order |-> 1],
       [id |-> NewStatusId(first + 1), project_id |-> projectId,
        category |-> "todo", sort_order |-> 2],
       [id |-> NewStatusId(first + 2), project_id |-> projectId,
        category |-> "in_progress", sort_order |-> 3],
       [id |-> NewStatusId(first + 3), project_id |-> projectId,
        category |-> "done", sort_order |-> 4] >>

\* the toast of a rejected form, "" when the form is accepted
CreateProjectError(st, name, identifier) ==
    IF name = <<>> THEN "name-required"
    ELSE IF identifier = <<>> THEN "identifier-required"
    ELSE IF \E i \in 1..Len(st.projects) : st.projects[i].identifier = identifier
    THEN "identifier-exists"
    ELSE ""

\* handleCreateProject: submit of the create-project form with the given values
HandleCreateProject(nameValue, identifierValue) ==
    /\ modal.kind = "create-project"
    /\ idCounter.project < MaxNewProjects
    /\ LET name == Trim(nameValue)
           identifier == ToUpperCase(Trim(identifierValue))
           error == CreateProjectError(state, name, identifier)
       IN IF error # ""
          THEN /\ toast' = [message |-> error, type |-> "error"]
               /\ lastOp' = [Op("handleCreateProject", NoTask) EXCEPT !.outcome = "rejected"]
               /\ UNCHANGED <<state, dragVars, renderVars, modal, env, clock, idCounter>>
          ELSE /\ state' = [state EXCEPT
                     !.statuses = @ \o DefaultStatuses(NewProjectId(idCounter.project + 1),
                                                       idCounter.status + 1),
                     !.projects = Append(@, Project(NewProjectId(idCounter.project + 1), name,
                                                    identifier, CreateSlug(name), clock))]
               /\ idCounter' = [idCounter EXCEPT !.project = @ + 1, !.status = @ + 4]
               /\ modal' = [kind |-> "none", slug |-> NULL, listeners |-> 0]
               /\ toast' = [message |-> "project-created", type |-> "success"]
               /\ lastOp' = Op("handleCreateProject", NoTask)
               /\ renderProjectsLanding(state')
               /\ UNCHANGED <<dnd, env, clock>>

\* the toast of a rejected settings form, "" when the form is accepted
SettingsError(name, identifier) ==
    IF name = <<>> THEN "name-required"
    ELSE IF identifier = <<>> THEN "identifier-required"
    ELSE IF Len(identifier) > 5 THEN "identifier-too-long"
    ELSE ""

\* the project after the writes of the save-settings handler
SavedProject(project, name, identifier) ==
    [project EXCEPT !.name = name, !.identifier = identifier, !.updated_at = clock,
                    !.slug = SettingsSlug(name)]

\* state.projects with the project of the same id replaced by the updated object
WithProject(ps, project) ==
    [i \in 1..Len(ps) |-> IF ps[i].id = project.id THEN project ELSE ps[i]]

\* the render that ends the save-settings handler: renderProjectDetail(project.slug),
\* and the route change to #/projects/<newSlug> that a changed slug triggers,
\* which is the landing page when the new slug is empty
RenderSavedProject(st, oldSlug, newSlug) ==
    IF newSlug # oldSlug /\ newSlug = "" THEN renderProjectsLanding(st)
    ELSE renderProjectDetail(st, newSlug)

\* click on #save-settings of the settings tab of the project shown for `slug`
SaveSettings(slug, nameValue, identifierValue) ==
    /\ OnDetail(slug) /\ Clickable /\ dom.tab = "settings"
    /\ hasProjectSlug(state, slug)
    /\ LET name == Trim(nameValue)
           identifier == ToUpperCase(Trim(identifierValue))
           error == SettingsError(name, identifier)
       IN IF error # ""
          THEN /\ toast' = [message |-> error, type |-> "error"]
               /\ lastOp' = [Op("saveSettings", NoTask) EXCEPT !.outcome = "rejected"]
               /\ UNCHANGED <<state, dragVars, renderVars, modal, env, clock, idCounter>>
          ELSE /\ state' = [state EXCEPT !.projects =
                     WithProject(@, SavedProject(getProjectBySlug(state, slug), name, identifier))]
               /\ toast' = [message |-> "settings-saved", type |-> "success"]
               /\ lastOp' = Op("saveSettings", NoTask)
               /\ RenderSavedProject(state', slug, SettingsSlug(name))
               /\ ViewHandlerFrame

\* click on #delete-project: showDeleteProjectModal(project, slug) for the project
\* the settings tab was rendered for
ShowDeleteProjectModal(slug) ==
    /\ OnDetail(slug) /\ Clickable /\ dom.tab = "settings"
    /\ hasProjectSlug(state, slug)
    /\ modal' = [kind |-> "delete-project", slug |-> slug, listeners |-> 1,
                 projectId |-> getProjectBySlug(state, slug).id, confirmText |-> <<>>]
    /\ lastOp' = Op("showDeleteProjectModal", NoTask)
    /\ UNCHANGED <<state, dragVars, renderVars, env, clock, idCounter, toast>>

\* input into #delete-confirm-text
TypeConfirmText(value) ==
    /\ modal.kind = "delete-project"
    /\ modal' = [modal EXCEPT !.confirmText = value]
    /\ lastOp' = Op("typeConfirmText", NoTask)
    /\ UNCHANGED <<state, dragVars, renderVars, env, clock, idCounter, toast>>

\* modal.remove() of the close buttons and the overlay of the delete modal
CloseDeleteProjectModal ==
    /\ modal.kind = "delete-project"
    /\ modal' = [kind |-> "none", slug |-> NULL, listeners |-> 0]
    /\ lastOp' = Op("closeDeleteProjectModal", NoTask)
    /\ UNCHANGED <<state, dragVars, renderVars, env, clock, idCounter, toast>>

\* the confirm handler with the filter of state.files left out
deleteProjectKeepingFiles(st, projectId) ==
    [st EXCEPT !.projects = SeqFilter(@, LAMBDA p : p.id # projectId),
               !.tasks = SeqFilter(@, LAMBDA t : t.project_id # projectId)]

\* the store after the removals of the confirm handler of the delete modal
deleteProject(st, projectId) ==
    [st EXCEPT !.projects = IF hasProject(st, projectId)
                            THEN RemoveAt(@, FindIndex(@, LAMBDA p : p.id = projectId))
                            ELSE @,
               !.tasks = SeqFilter(@, LAMBDA t : t.project_id # projectId),
               !.files = SeqFilter(@, LAMBDA f : f.project_id # projectId)]

\* click on #confirm-delete: the handler compares the input with project.name
ConfirmDeleteProject ==
    /\ modal.kind = "delete-project"
    /\ hasProject(state, modal.projectId)
    /\ IF modal.confirmText = getProjectById(state, modal.projectId).name
       THEN /\ state' = deleteProject(state, modal.projectId)
            /\ modal' = [kind |-> "none", slug |-> NULL, listeners |-> 0]
            /\ toast' = [message |-> "project-deleted", type |-> "success"]
            /\ lastOp' = [Op("confirmDeleteProject", NoTask) EXCEPT !.outcome = "deleted"]
            /\ renderProjectsLanding(state')
            /\ UNCHANGED <<dnd, env, clock, idCounter>>
       ELSE /\ lastOp' = [Op("confirmDeleteProject", NoTask) EXCEPT !.outcome = "ignored"]
            /\ UNCHANGED <<state, dragVars, renderVars, modal, env, clock, idCounter, toast>>

----
\* The loaded store (loadAllData) and the initial states

LoadedProjects ==
    << Project("p1", <<"A", "l", "p", "h", "a">>, <<"A">>, "alpha", 0),
       Project("p2", <<"b", "e", "t", "a">>, <<"A", "B">>, "beta", 0) >>

LoadedPriorities ==
    << [id |-> "priority-high", sort_order |-> 1], [id |-> "priority-medium", sort_order |-> 2],
       [id |-> "priority-low", sort_order |-> 3] >>

LoadedFiles == << [id |-> "f1", project_id |-> "p1"], [id |-> "f2", project_id |-> "p2"] >>

LoadedUsers == << [id |-> "u1", name |-> <<"A", "b">>], [id |-> "u2", name |-> <<"b">>] >>

LoadedLabels == << [id |-> "l1", project_id |-> "p1", name |-> <<"a">>] >>

LoadedStatuses ==
    << [id |-> "s1", project_id |-> "p1", category |-> "todo", sort_order |-> 1],
       [id |-> "s2", project_id |-> "p1", category |-> "done", sort_order |-> 2],
       [id |-> "s3", project_id |-> "p2", category |-> "todo", sort_order |-> 1] >>

\* a task of tasks.json
Task(id, projectId, seq, title, statusId, priorityId, assigneeId, sortOrder) ==
    [id |-> id, project_id |-> projectId, sequence_id |-> seq,
     title |-> title, description |-> <<>>, key |-> NoString,
     status_id |-> statusId, priority_id |-> priorityId, assignee_id |-> assigneeId,
     due_date |-> NoDate, start_date |-> NoDate, label_ids |-> <<>>,
     sort_order |-> sortOrder, is_archived |-> FALSE,
     created_at |-> 0, updated_at |-> 0]

\* tasks.json: every (project, status) bucket is a dense 1..N ranking
LoadedTasks ==
    << Task(1, "p1", 1, <<"a">>, "s1", "priority-high", "u1", 1),
       Task(2, "p1", 2, <<"b">>, "s1", NULL, NULL, 2),
       Task(3, "p1", 3, <<"a", "b">>, "s2", "priority-high", "u2", 1),
       Task(4, "p2", 1, <<"a">>, "s3", NULL, "u1", 1) >>

\* the wall clock of the session: 2025-01-15, a Wednesday, at the given hour
Jan15 == Dec1 + 31 + 14
Now(hour) == [day |-> Jan15, hour |-> hour, month |-> 1]

\* the `state` object after loadAllData with the given tasks
LoadedState(ts) ==
    [projects |-> LoadedProjects, tasks |-> ts, statuses |-> LoadedStatuses,
     users |-> LoadedUsers, labels |-> LoadedLabels, files |-> LoadedFiles,
     priorities |-> LoadedPriorities, workspace |-> "ws-001",
     showArchivedTasks |-> [p \in ProjectIds |-> FALSE],
     assignedToMe |-> [p \in ProjectIds |-> FALSE],
     assigneeFilter |-> [p \in ProjectIds |-> {}],
     taskSearch |-> [p \in ProjectIds |-> <<>>],
     projectGroupBy |-> [p \in ProjectIds |-> "none"],
     projectSort |-> [p \in ProjectIds |-> [field |-> "manual", direction |-> "asc"]],
     boardSwimlane |-> [p \in ProjectIds |-> "none"],
     activeDropdown |-> NULL,
     filesPagination |-> [page |-> 1, pageSize |-> 10],
     membersPagination |-> [page |-> 1, pageSize |-> 10],
     currentProjectTab |-> "tasks",
     quickAddStatus |-> NULL,
     roadmapScale |-> "month",
     roadmapOffset |-> 0]

\* the files of the data directory
DataFiles == {"workspace", "projects", "tasks", "statuses", "users", "priorities", "labels",
              "files"}

\* loadJSON(filename): null when the fetch fails, the parsed JSON otherwise
loadJSON(filename, failed) ==
    IF filename \in failed THEN [isNull |-> TRUE, value |-> <<>>]
    ELSE [isNull |-> FALSE, value |-> LoadedState(LoadedTasks)[filename]]

\* `loaded || []`
OrEmpty(loaded) == IF loaded.isNull THEN <<>> ELSE loaded.value

\* the `state` object after loadAllData() when the fetches of `failed` fail
loadAllData(st, failed) ==
    [st EXCEPT !.workspace = IF loadJSON("workspace", failed).isNull THEN NULL
                             ELSE loadJSON("workspace", failed).value,
               !.projects = OrEmpty(loadJSON("projects", failed)),
               !.tasks = OrEmpty(loadJSON("tasks", failed)),
               !.statuses = OrEmpty(loadJSON("statuses", failed)),
               !.users = OrEmpty(loadJSON("users", failed)),
               !.priorities = OrEmpty(loadJSON("priorities", failed)),
               !.labels = OrEmpty(loadJSON("labels", failed)),
               !.files = OrEmpty(loadJSON("files", failed))]

IdleDragState == [draggingTaskId |-> NoTask, sourceStatusId |-> NULL, dragElement |-> NULL,
                  currentProjectSlug |-> NULL]

NoListeners == [site \in Sites |-> 0]

NoModal == [kind |-> "none", slug |-> NULL, listeners |-> 0]

\* the session after init(): the store st is loaded and the route #/projects/<slug>
\* is rendered, in timezone zone at the given hour
InitOnDetail(st, slug, zone, hour) ==
    /\ state = st
    /\ env = [tz |-> zone, now |-> Now(hour), gestures |-> 0,
              timers |-> 0, outsideClick |-> FALSE, debounce |-> <<>>]
    /\ dom = DetailDom(st, slug, Now(hour), zone)
    /\ dragState = [IdleDragState EXCEPT !.currentProjectSlug = slug]
    /\ dnd = "none"
    /\ viewAbortController = FreshController
    /\ listeners = AttachListeners(NoListeners, dom, FreshController)
    /\ ganttDragState = NoGanttDrag
    /\ modal = NoModal
    /\ clock = 1
    /\ idCounter = [task |-> Len(st.tasks), status |-> 0, project |-> 0]
    /\ toast = [message |-> "", type |-> "none"]
    /\ lastOp = Op("init", NoTask)

Init == InitOnDetail(LoadedState(LoadedTasks), "alpha", 0, 12)

GroupByModes == {"none", "status", "priority", "assignee"}

\* positions of the groups or columns a view can render
GroupIndexes == 1..(Len(PriorityGroupIds) + MaxNewStatuses)

\* values typed into the quick-add input and the title field
Titles == { <<"a">>, <<" ">> }

\* Drag-and-drop, tabs and grouping of the list view
Next ==
    \/ \E slug \in Slugs, tabName \in {"tasks", "board"} : SwitchTab(slug, tabName)
    \/ \E slug \in Slugs, g \in GroupByModes : SetGroupBy(slug, g)
    \/ \E taskId \in 1..MaxTaskIds : HandleDragStart(taskId)
    \/ \E taskId \in 1..MaxTaskIds, isAbove \in BOOLEAN : HandleTaskDrop(taskId, isAbove)
    \/ \E taskId \in 1..MaxTaskIds, isAbove \in BOOLEAN : HandleCardDrop(taskId, isAbove)
    \/ \E g \in GroupIndexes : HandleListDrop(g)
    \/ \E g \in GroupIndexes : HandleColumnDrop(g)
    \/ HandleDragEnd

Spec == Init /\ [][Next]_vars

----
\* The drag engine under fair delivery of dragend

\* dragend reaches handleDragEnd through the listener of the dragged row or
\* card; its delivery is certain only while that element is in the document
DragEndInDocument == HandleDragEnd /\ dragState.dragElement # "detached"

SpecDragFair == Spec /\ WF_vars(DragEndInDocument)

----
\* Drops of task drags and of other drags

NextDrop ==
    \/ Next
    \/ \E taskId \in 1..MaxTaskIds, isAbove \in BOOLEAN :
          DropOfOtherDragOnTask("handleTaskDrop", "tasks", taskId, isAbove)
    \/ \E taskId \in 1..MaxTaskIds, isAbove \in BOOLEAN :
          DropOfOtherDragOnTask("handleCardDrop", "board", taskId, isAbove)
    \/ \E g \in GroupIndexes : DropOfOtherDragOnGroup("handleListDrop", "tasks", g)
    \/ \E g \in GroupIndexes : DropOfOtherDragOnGroup("handleColumnDrop", "board", g)

SpecDrop == Init /\ [][NextDrop]_vars

----
\* Swimlanes of the board

SwimlaneModes == {"none", "priority", "assignee"}

NextSwimlane ==
    \/ \E slug \in Slugs, tabName \in {"tasks", "board"} : SwitchTab(slug, tabName)
    \/ \E slug \in Slugs, swimlane \in SwimlaneModes : SetBoardSwimlane(slug, swimlane)
    \/ \E taskId \in 1..MaxTaskIds : HandleDragStart(taskId)
    \/ \E taskId \in 1..MaxTaskIds, isAbove \in BOOLEAN : HandleCardDrop(taskId, isAbove)
    \/ \E g \in GroupIndexes : HandleColumnDrop(g)
    \/ HandleDragEnd

SpecSwimlane == Init /\ [][NextSwimlane]_vars

----
\* Filters of the task projection

\* a store with an archived task, a labelled task and tasks of three assignees
FilterTasks ==
    << Task(1, "p1", 1, <<"A">>, "s1", "priority-high", "u1", 1),
       [Task(2, "p1", 2, <<"b">>, "s1", NULL, NULL, 2) EXCEPT !.label_ids = <<"l1">>],
       Task(3, "p1", 3, <<"b">>, "s2", "priority-high", "u2", 1),
       Task(4, "p2", 1, <<"a">>, "s3", NULL, "u1", 1),
       [Task(5, "p1", 4, <<"b">>, "s2", NULL, "u1", 2) EXCEPT !.is_archived = TRUE] >>

InitFilter == InitOnDetail(LoadedState(FilterTasks), "alpha", 0, 12)

\* values of the search input
SearchTexts == { <<>>, <<"A">>, <<"b", " ">> }

AssigneeChoices == {"u1", "u2", "unassigned"}

NextFilter ==
    \/ \E slug \in Slugs, checked \in BOOLEAN : ToggleArchived(slug, checked)
    \/ \E slug \in Slugs, checked \in BOOLEAN : ToggleAssignedToMe(slug, checked)
    \/ \E slug \in Slugs, a \in AssigneeChoices, isChecked \in BOOLEAN :
           ToggleAssigneeFilter(slug, a, isChecked)
    \/ \E slug \in Slugs, value \in SearchTexts : SearchTasks(slug, value)

SpecFilter == InitFilter /\ [][NextFilter]_vars

----
\* Grouping of a loaded store: loadAllData takes tasks.json as it is

\* references a task of tasks.json may carry: known ones, none, unknown ones
LoadedStatusRefs == {"s1", "s2", "s9"}
LoadedPriorityRefs == {NULL, "priority-high", "priority-x"}
LoadedAssigneeRefs == {NULL, "u1", "u9"}

GroupTasks(statusId, priorityId, assigneeId, otherStatusId) ==
    << Task(1, "p1", 1, <<"a">>, statusId, priorityId, assigneeId, 1),
       Task(2, "p1", 2, <<"b">>, otherStatusId, "priority-low", "u2", 1) >>

InitGroups ==
    \E statusId \in LoadedStatusRefs, priorityId \in LoadedPriorityRefs,
       assigneeId \in LoadedAssigneeRefs, otherStatusId \in LoadedStatusRefs :
        InitOnDetail(LoadedState(GroupTasks(statusId, priorityId, assigneeId, otherStatusId)),
                     "alpha", 0, 12)

NextGroups ==
    \/ \E slug \in Slugs, g \in GroupByModes : SetGroupBy(slug, g)
    \/ \E slug \in Slugs, tabName \in {"tasks", "board"} : SwitchTab(slug, tabName)
    \/ \E taskId \in 1..MaxTaskIds, newStatusId \in {"s1", "s2"}, slug \in Slugs :
           UpdateTaskStatus(taskId, newStatusId, slug)

SpecGroups == InitGroups /\ [][NextGroups]_vars

\* a store in which task 1 names a priority and a user that do not exist,
\* next to a task without priority and assignee and two classified tasks
FallbackTasks ==
    << Task(1, "p1", 1, <<"a">>, "s1", "priority-x", "u9", 1),
       Task(2, "p1", 2, <<"b">>, "s1", NULL, NULL, 2),
       Task(3, "p1", 3, <<"a">>, "s1", "priority-high", "u1", 3),
       Task(4, "p1", 4, <<"b">>, "s2", "priority-high", "u1", 1) >>

InitFallback == InitOnDetail(LoadedState(FallbackTasks), "alpha", 0, 12)

NextFallback ==
    \/ \E slug \in Slugs, g \in GroupByModes : SetGroupBy(slug, g)
    \/ \E taskId \in 1..MaxTaskIds : HandleDragStart(taskId)
    \/ \E taskId \in 1..MaxTaskIds, isAbove \in BOOLEAN : HandleTaskDrop(taskId, isAbove)
    \/ \E g \in GroupIndexes : HandleListDrop(g)
    \/ HandleDragEnd

SpecFallback == InitFallback /\ [][NextFallback]_vars

----
\* Task creation

NextCreate ==
    \/ \E slug \in Slugs, g \in GroupIndexes : ShowQuickAddTask(slug, g)
    \/ \E slug \in Slugs, value \in Titles : HandleQuickAddTask(slug, value)
    \/ \E slug \in Slugs : ShowCreateTaskModal(slug)
    \/ \E value \in Titles, statusId \in {"s1", "s2"}, assigneeId \in {NULL, "u1"} :
           HandleCreateTask(value, statusId, assigneeId)
    \/ CloseModal
    \/ \E taskId \in 1..MaxTaskIds, slug \in Slugs : ArchiveTask(taskId, slug)
    \/ \E slug \in Slugs, checked \in BOOLEAN : ToggleArchived(slug, checked)
    \/ Tick

SpecCreate == Init /\ [][NextCreate]_vars

----
\* Workflow management and navigation

\* ids of the statuses a session can see
StatusIds == {"s1", "s2", "s3"} \cup { NewStatusId(n) : n \in 1..MaxNewStatuses }

NextWorkflow ==
    \/ \E slug \in Slugs : ShowManageWorkflowModal(slug)
    \/ AddNewStatus
    \/ \E statusId \in StatusIds, confirmed \in BOOLEAN : DeleteWorkflowStatus(statusId, confirmed)
    \/ SaveWorkflowChanges
    \/ CloseModal
    \/ NavigateToLanding
    \/ \E slug \in Slugs : NavigateToProject(slug)

SpecWorkflow == Init /\ [][NextWorkflow]_vars

----
\* Gantt gestures on the roadmap

\* 2025-01-01
Jan1 == Dec1 + 31

\* a store with a task from 2025-01-01 to 2025-01-08 and a task with a due date only
GanttTasks ==
    << [Task(1, "p1", 1, <<"a">>, "s1", NULL, "u1", 1) EXCEPT
            !.start_date = Jan1, !.due_date = Jan1 + 7],
       [Task(2, "p1", 2, <<"b">>, "s1", NULL, NULL, 2) EXCEPT !.due_date = Jan1 + 19] >>

\* hours east of UTC of the browser's timezone
Zones == {-1, 0, 1}
\* the hour of the day at which the page is used
Hours == {0, 12, 23}

InitGantt ==
    \E zone \in Zones, hour \in Hours :
        InitOnDetail([LoadedState(GanttTasks) EXCEPT !.currentProjectTab = "roadmap"],
                     "alpha", zone, hour)

\* horizontal mouse travel of a gesture: ten hours, a day back, a week
Deltas == { 10 * HourUnits, -DayUnits, 7 * DayUnits }

NextGantt ==
    \/ \E slug \in Slugs, newScale \in {"week", "month"} : SetRoadmapScale(slug, newScale)
    \/ \E b \in 1..MaxTaskIds, dragType \in {"move", "resize-left", "resize-right"} :
           GanttMouseDown(b, dragType)
    \/ \E delta \in Deltas : GanttMouseMove(delta)
    \/ GanttMouseUp

SpecGantt == InitGantt /\ [][NextGantt]_vars

\* mouse travel that reaches beyond the edges of the track
WideDeltas == { -DayUnits, -40 * DayUnits, 7 * DayUnits, 150 * DayUnits }

NextGanttWide ==
    \/ \E slug \in Slugs, newScale \in {"week", "month"} : SetRoadmapScale(slug, newScale)
    \/ \E b \in 1..MaxTaskIds, dragType \in {"resize-left", "resize-right"} :
           GanttMouseDown(b, dragType)
    \/ \E delta \in WideDeltas : GanttMouseMove(delta)
    \/ GanttMouseUp

SpecGanttWide == InitGantt /\ [][NextGanttWide]_vars

----
\* Transient dropdowns of the toolbar

\* env.timers counts the pending setTimeout callbacks that register
\* handleDropdownOutsideClick; env.outsideClick tells whether the document has it

\* closeDropdown(): the store afterwards
ClosedDropdown(st) == [st EXCEPT !.activeDropdown = NULL]

\* closeDropdown(): document.removeEventListener('click', handleDropdownOutsideClick)
WithoutOutsideClick(e) == [e EXCEPT !.outsideClick = FALSE]

DropdownIds == {"group-by-dropdown", "sort-dropdown"}

\* click on the toolbar button of a dropdown: createDropdown with toggle = true.
\* The click does not reach the document (stopPropagation).
ShowDropdown(slug, id) ==
    /\ OnDetail(slug) /\ Clickable /\ dom.tab = "tasks"
    /\ hasProjectSlug(state, slug)
    /\ IF state.activeDropdown = id
       THEN /\ state' = ClosedDropdown(state)
            /\ env' = WithoutOutsideClick(env)
       ELSE /\ env.timers < MaxTimers
            /\ state' = [state EXCEPT !.activeDropdown = id]
            /\ env' = [WithoutOutsideClick(env) EXCEPT !.timers = @ + 1]
    /\ lastOp' = Op("createDropdown", NoTask)
    /\ UNCHANGED <<dragVars, renderVars, modal, clock, idCounter, toast>>

\* the callback of setTimeout(..., 10) of createDropdown runs
RegisterOutsideClick ==
    /\ env.timers > 0
    /\ env' = [env EXCEPT !.timers = @ - 1, !.outsideClick = TRUE]
    /\ lastOp' = Op("registerOutsideClick", NoTask)
    /\ UNCHANGED <<state, dragVars, renderVars, modal, clock, idCounter, toast>>

\* a click outside the dropdown and outside the toolbar buttons reaches the
\* document: handleDropdownOutsideClick
HandleDropdownOutsideClick ==
    /\ env.outsideClick
    /\ modal.kind = "none" /\ dnd # "dragging"
    /\ IF state.activeDropdown = NULL
       THEN UNCHANGED <<state, env>>
       ELSE /\ state' = ClosedDropdown(state)
            /\ env' = WithoutOutsideClick(env)
    /\ lastOp' = Op("handleDropdownOutsideClick", NoTask)
    /\ UNCHANGED <<dragVars, renderVars, modal, clock, idCounter, toast>>

\* click on an item of the open group-by dropdown
ChooseGroupBy(slug, newGroupBy) ==
    /\ OnDetail(slug) /\ Clickable
    /\ state.activeDropdown = "group-by-dropdown"
    /\ hasProjectSlug(state, slug)
    /\ Commit(ClosedDropdown([state EXCEPT
                  !.projectGroupBy[getProjectBySlug(state, slug).id] = newGroupBy]), slug)
    /\ env' = WithoutOutsideClick(env)
    /\ toast' = [message |-> "grouped", type |-> "success"]
    /\ lastOp' = Op("setGroupBy", NoTask)
    /\ UNCHANGED <<dnd, modal, clock, idCounter>>

\* click on an item of the open sort dropdown
ChooseSort(slug, field) ==
    /\ OnDetail(slug) /\ Clickable
    /\ state.activeDropdown = "sort-dropdown"
    /\ hasProjectSlug(state, slug)
    /\ Commit(ClosedDropdown([state EXCEPT
                  !.projectSort[getProjectBySlug(state, slug).id] = NextSort(@, field)]), slug)
    /\ env' = WithoutOutsideClick(env)
    /\ toast' = [message |-> "sorted:" \o field, type |-> "success"]
    /\ lastOp' = Op("setProjectSort", NoTask)
    /\ UNCHANGED <<dnd, modal, clock, idCounter>>

NextDropdown ==
    \/ \E slug \in Slugs, id \in DropdownIds : ShowDropdown(slug, id)
    \/ RegisterOutsideClick
    \/ HandleDropdownOutsideClick
    \/ \E slug \in Slugs, g \in GroupByModes : ChooseGroupBy(slug, g)
    \/ \E slug \in Slugs, field \in {"manual", "title"} : ChooseSort(slug, field)

SpecDropdown == Init /\ [][NextDropdown]_vars

----
\* Pagination of the files table and of the members table

\* the options of the "Rows per page" select
PageSizes == {10, 20, 50}

PagedTables == {"files", "members"}

\* state.filesPagination for the files tab, state.membersPagination for the
\* members tab
PaginationOf(table) == IF table = "files" THEN "filesPagination" ELSE "membersPagination"

getFilesForProject(st, projectId) == SeqFilter(st.files, LAMBDA f : f.project_id = projectId)

\* the rows renderFilesView / renderMembersView paginate for the project
TableItems(st, projectId, table) ==
    IF table = "files" THEN Len(getFilesForProject(st, projectId))
    ELSE Len(getProjectMembers(st, projectId))

\* Math.ceil(totalItems / pageSize)
TotalPages(totalItems, pageSize) == (totalItems + pageSize - 1) \div pageSize

\* items.slice((page - 1) * pageSize, (page - 1) * pageSize + pageSize), as the
\* positions of the items shown
getPaginatedItems(totalItems, page, pageSize) ==
    { i \in 1..totalItems : (page - 1) * pageSize < i /\ i <= (page - 1) * pageSize + pageSize }

\* the pagination component of the table is in the document: the tab of the
\* table is shown and the table has items
PaginationRendered(slug, table) ==
    /\ OnDetail(slug) /\ Clickable /\ dom.tab = table
    /\ hasProjectSlug(state, slug)
    /\ TableItems(state, getProjectBySlug(state, slug).id, table) > 0

\* the previous / next buttons exist when there is more than one page
PaginationNavRendered(slug, table) ==
    /\ PaginationRendered(slug, table)
    /\ TotalPages(TableItems(state, getProjectBySlug(state, slug).id, table),
                  state[PaginationOf(table)].pageSize) > 1

PrevPage(slug, table) ==
    /\ PaginationNavRendered(slug, table)
    /\ state[PaginationOf(table)].page > 1
    /\ Commit([state EXCEPT ![PaginationOf(table)].page = @ - 1], slug)
    /\ lastOp' = Op("prevPage", NoTask)
    /\ UNCHANGED toast
    /\ ViewHandlerFrame

\* the next button is disabled on the last page and beyond: a disabled button
\* gets no click
NextPage(slug, table) ==
    /\ PaginationNavRendered(slug, table)
    /\ state[PaginationOf(table)].page
          < TotalPages(TableItems(state, getProjectBySlug(state, slug).id, table),
                       state[PaginationOf(table)].pageSize)
    /\ Commit([state EXCEPT ![PaginationOf(table)].page = @ + 1], slug)
    /\ lastOp' = Op("nextPage", NoTask)
    /\ UNCHANGED toast
    /\ ViewHandlerFrame

ChangePageSize(slug, table, size) ==
    /\ PaginationRendered(slug, table)
    /\ Commit([state EXCEPT ![PaginationOf(table)] = [page |-> 1, pageSize |-> size]], slug)
    /\ lastOp' = Op("changePageSize", NoTask)
    /\ UNCHANGED toast
    /\ ViewHandlerFrame

\* a store with eleven files and eleven members in project alpha and one of
\* each in project beta
PagedFileIds == << "f1", "f2", "f3", "f4", "f5", "f6", "f7", "f8", "f9", "f10", "f11", "f12" >>

PagedUserIds == << "u1", "u2", "u3", "u4", "u5", "u6", "u7", "u8", "u9", "u10", "u11" >>

PagedFiles ==
    [i \in 1..Len(PagedFileIds) |->
        [id |-> PagedFileIds[i], project_id |-> IF i < Len(PagedFileIds) THEN "p1" ELSE "p2"]]

PagedUsers == [i \in 1..Len(PagedUserIds) |-> [id |-> PagedUserIds[i], name |-> <<"b">>]]

PagedTasks ==
    [i \in 1..Len(PagedUserIds) + 1 |->
        IF i <= Len(PagedUserIds)
        THEN Task(i, "p1", i, <<"a">>, "s1", NULL, PagedUserIds[i], i)
        ELSE Task(i, "p2", 1, <<"a">>, "s3", NULL, "u1", 1)]

InitPages ==
    InitOnDetail([LoadedState(PagedTasks) EXCEPT !.files = PagedFiles, !.users = PagedUsers],
                 "alpha", 0, 12)

NextPages ==
    \/ \E slug \in Slugs : NavigateToProject(slug)
    \/ \E slug \in Slugs, tabName \in {"tasks"} \cup PagedTables : SwitchTab(slug, tabName)
    \/ \E slug \in Slugs, table \in PagedTables : PrevPage(slug, table)
    \/ \E slug \in Slugs, table \in PagedTables : NextPage(slug, table)
    \/ \E slug \in Slugs, table \in PagedTables, size \in PageSizes :
          ChangePageSize(slug, table, size)

SpecPages == InitPages /\ [][NextPages]_vars

----
\* The search box and its debounce timers

\* env.debounce: the pending callbacks of setTimeout(..., 200) of the search
\* inputs, oldest first. `live` tells that the timer is the debounceTimer of the
\* input now in the document; `cleared` records that the search was cleared
\* after the timer was set.

\* the pending timers after a render has replaced the search input
OfReplacedInput(timers) == [i \in 1..Len(timers) |-> [timers[i] EXCEPT !.live = FALSE]]

\* the pending timers after the search of a project was cleared
AfterClear(timers, projectId) ==
    [i \in 1..Len(timers) |->
        IF timers[i].projectId = projectId THEN [timers[i] EXCEPT !.cleared = TRUE]
        ELSE timers[i]]

\* a keystroke in the search input: clearTimeout(debounceTimer), then a new
\* timer that holds the project, the slug and the input element
TypeSearch(slug, value) ==
    /\ OnDetail(slug) /\ Clickable /\ dom.tab \in {"tasks", "board"}
    /\ hasProjectSlug(state, slug)
    /\ LET kept == SeqFilter(env.debounce, LAMBDA t : ~t.live)
       IN /\ Len(kept) < MaxTimers
          /\ env' = [env EXCEPT !.debounce =
                         Append(kept, [slug |-> slug,
                                       projectId |-> getProjectBySlug(state, slug).id,
                                       value |-> value, live |-> TRUE, cleared |-> FALSE])]
    /\ lastOp' = Op("typeSearch", NoTask)
    /\ UNCHANGED <<state, dragVars, renderVars, modal, clock, idCounter, toast>>

\* the oldest pending timer runs: state.taskSearch[project.id] = e.target.value
\* and renderProjectDetail(slug)
DebounceSearch ==
    /\ env.debounce # <<>>
    /\ LET timer == Head(env.debounce)
       IN /\ Commit([state EXCEPT !.taskSearch[timer.projectId] = timer.value], timer.slug)
          /\ lastOp' = [Op("debounceSearch", NoTask) EXCEPT !.stale = timer.cleared]
    /\ env' = [env EXCEPT !.debounce = OfReplacedInput(Tail(@))]
    /\ UNCHANGED <<dnd, modal, clock, idCounter, toast>>

\* Escape in the search input, or a click on the clear button
ClearSearch(slug) ==
    /\ OnDetail(slug) /\ Clickable /\ dom.tab \in {"tasks", "board"}
    /\ hasProjectSlug(state, slug)
    /\ Commit([state EXCEPT !.taskSearch[getProjectBySlug(state, slug).id] = <<>>], slug)
    /\ env' = [env EXCEPT !.debounce =
                   AfterClear(OfReplacedInput(@), getProjectBySlug(state, slug).id)]
    /\ lastOp' = Op("clearSearch", NoTask)
    /\ UNCHANGED <<dnd, modal, clock, idCounter, toast>>

NextDebounce ==
    \/ \E slug \in Slugs, value \in SearchTexts : TypeSearch(slug, value)
    \/ DebounceSearch
    \/ \E slug \in Slugs : ClearSearch(slug)

SpecDebounce == InitFilter /\ [][NextDebounce]_vars

----
\* Scales and offsets of the roadmap

RoadmapScales == {"week", "month", "quarter", "year"}

NextTimeline ==
    \/ \E slug \in Slugs, newScale \in RoadmapScales : SetRoadmapScale(slug, newScale)
    \/ \E slug \in Slugs : RoadmapPrev(slug)
    \/ \E slug \in Slugs : RoadmapNext(slug)
    \/ \E slug \in Slugs : RoadmapToday(slug)

SpecTimeline == InitGantt /\ [][NextTimeline]_vars

----
\* Gantt gestures and history navigation

NextGanttRoute ==
    \/ NextGantt
    \/ \E slug \in Slugs : HistoryNavigation(slug)

SpecGanttRoute == InitGantt /\ [][NextGanttRoute]_vars

----
\* Sorting and grouping of the list view

SortFields == {"manual", "title", "priority", "dueDate", "created", "updated"}

\* a store whose tasks have due dates and distinct timestamps
SortTasks ==
    << [Task(1, "p1", 1, <<"b">>, "s1", "priority-low", "u1", 1) EXCEPT
            !.due_date = NoDate, !.created_at = 1, !.updated_at = 3],
       [Task(2, "p1", 2, <<"a">>, "s1", "priority-high", NULL, 2) EXCEPT
            !.due_date = Jan15, !.created_at = 2, !.updated_at = 2],
       [Task(3, "p1", 3, <<"a", "b">>, "s2", NULL, "u2", 1) EXCEPT
            !.due_date = Jan15 + 1, !.created_at = 3, !.updated_at = 4],
       Task(4, "p2", 1, <<"a">>, "s3", NULL, "u1", 1) >>

InitSort == InitOnDetail(LoadedState(SortTasks), "alpha", 0, 12)

NextSortView ==
    \/ \E slug \in Slugs, field \in SortFields : SetProjectSort(slug, field)
    \/ \E slug \in Slugs, g \in GroupByModes : SetGroupBy(slug, g)
    \/ \E slug \in Slugs, tabName \in {"tasks", "board"} : SwitchTab(slug, tabName)

SpecSort == InitSort /\ [][NextSortView]_vars

----
\* Sessions on a store of which some files failed to load

\* the session after init() when the fetches of `failed` fail: the route
\* #/projects/alpha is rendered on what loadAllData left
InitLoad ==
    \E failed \in SUBSET DataFiles :
        /\ state = loadAllData(LoadedState(LoadedTasks), failed)
        /\ env = [tz |-> 0, now |-> Now(12), gestures |-> 0, failed |-> failed,
                  timers |-> 0, outsideClick |-> FALSE, debounce |-> <<>>]
        /\ dom = DetailDom(state, "alpha", Now(12), 0)
        /\ dragState = IF dom.view = "detail"
                       THEN [IdleDragState EXCEPT !.currentProjectSlug = "alpha"]
                       ELSE IdleDragState
        /\ dnd = "none"
        /\ viewAbortController = FreshController
        /\ listeners = IF dom.view = "detail"
                       THEN AttachListeners(NoListeners, dom, FreshController)
                       ELSE NoListeners
        /\ ganttDragState = NoGanttDrag
        /\ modal = NoModal
        /\ clock = 1
        /\ idCounter = [task |-> Len(state.tasks), status |-> 0, project |-> 0]
        /\ toast = [message |-> "", type |-> "none"]
        /\ lastOp = Op("init", NoTask)

NextLoad ==
    \/ \E slug \in Slugs, checked \in BOOLEAN : ToggleAssignedToMe(slug, checked)
    \/ \E slug \in Slugs, value \in {<<>>, <<"b">>} : SearchTasks(slug, value)
    \/ \E slug \in Slugs, g \in GroupByModes : SetGroupBy(slug, g)

SpecLoad == InitLoad /\ [][NextLoad]_vars

----
\* The board with swimlanes on a store of which some files failed to load

NextLanes ==
    \/ \E slug \in Slugs, tabName \in {"tasks", "board"} : SwitchTab(slug, tabName)
    \/ \E slug \in Slugs, swimlane \in SwimlaneModes : SetBoardSwimlane(slug, swimlane)
    \/ \E slug \in Slugs, checked \in BOOLEAN : ToggleAssignedToMe(slug, checked)
    \/ \E slug \in Slugs, value \in {<<>>, <<"b">>} : SearchTasks(slug, value)

SpecLanes == InitLoad /\ [][NextLanes]_vars

----
\* Project creation, settings and deletion

\* values typed into the name fields and into the confirmation input
ProjectNameValues ==
    { <<"A", "l", "p", "h", "a">>, <<"b", " ", "!">>, <<"!">>, <<" ">> }

\* values typed into the identifier field of the create-project form
CreateIdentifierValues == { <<>>, <<"a">>, <<"b">> }

\* values typed into the identifier field of the settings tab
SettingsIdentifierValues == { <<>>, <<"a">>, <<"a", "a", "a", "a", "a", "a">> }

NextProjects ==
    \/ NavigateToLanding
    \/ \E i \in 1..Len(state.projects) :
          state.projects[i].slug # "" /\ NavigateToProject(state.projects[i].slug)
    \/ \E i \in 1..Len(state.projects), tabName \in {"tasks", "settings"} :
          SwitchTab(state.projects[i].slug, tabName)
    \/ ShowCreateProjectModal
    \/ \E n \in ProjectNameValues, id \in CreateIdentifierValues : HandleCreateProject(n, id)
    \/ CloseModal
    \/ \E i \in 1..Len(state.projects), n \in ProjectNameValues,
          id \in SettingsIdentifierValues : SaveSettings(state.projects[i].slug, n, id)
    \/ \E i \in 1..Len(state.projects) : ShowDeleteProjectModal(state.projects[i].slug)
    \/ \E v \in ProjectNameValues : TypeConfirmText(v)
    \/ ConfirmDeleteProject
    \/ CloseDeleteProjectModal

SpecProjects == Init /\ [][NextProjects]_vars

----
\* Properties of drag-and-drop and of the render cycle

DropHandlers == {"handleTaskDrop", "handleCardDrop", "handleListDrop", "handleColumnDrop"}

\* the status ids a task or a status of the store carries
StatusIdsOf(st) == { st.statuses[i].id : i \in 1..Len(st.statuses) }
                       \cup { st.tasks[i].status_id : i \in 1..Len(st.tasks) }

\* the non-archived tasks of a (project, status) bucket
BucketTasks(st, projectId, statusId) ==
    SeqFilter(st.tasks, LAMBDA t :
        t.project_id = projectId /\ t.status_id = statusId /\ ~t.is_archived)

\* the sort_order values of a bucket are exactly 1..N
DenseBucket(ts) == { ts[i].sort_order : i \in 1..Len(ts) } = 1..Len(ts)

DenseBuckets(st) ==
    \A p \in ProjectIds, sid \in StatusIdsOf(st) : DenseBucket(BucketTasks(st, p, sid))

\* C1: after a completed drag-and-drop or quick-add, the sort_order values of
\* the non-archived tasks of every (project, status) bucket are exactly 1..N
C1_BucketsDenseAfterDropOrQuickAdd ==
    lastOp.op \in DropHandlers \cup {"handleQuickAddTask"} => DenseBuckets(state)

\* C3: after a render no listener of an earlier render is left and none of
\* them fires: the live listeners are those a single render of the current
\* view binds, and the controller in use is not aborted
C3_NoListenerSurvivesRender ==
    /\ ~viewAbortController.aborted
    /\ \A site \in Sites : listeners[site] = BoundAt(site, dom)
    /\ lastOp.op = "handleDragEnd" => ~lastOp.stale

\* the fields of a task other than its timestamps
TaskFields(t) == [t EXCEPT !.updated_at = 0, !.created_at = 0]

\* C6: a step that changes a field of a task refreshes the task's updated_at
C6_UpdatedAtRefreshedOnMutation ==
    [][\A i \in 1..Len(state.tasks) :
          TaskFields(state'.tasks[i]) # TaskFields(state.tasks[i])
              => state'.tasks[i].updated_at = clock']_vars

\* the dragged row sits right below (isAbove false) or right above (isAbove
\* true) the target row in a rendered group
DisplayedNeighbour(taskId, targetId, isAbove) ==
    \E g \in 1..Len(dom.groups) : \E i \in 1..(Len(dom.groups[g].rows) - 1) :
        IF isAbove
        THEN dom.groups[g].rows[i] = taskId /\ dom.groups[g].rows[i + 1] = targetId
        ELSE dom.groups[g].rows[i] = targetId /\ dom.groups[g].rows[i + 1] = taskId

\* the classification and the rank of the tasks of the store
OrderingFields(ts) ==
    [i \in 1..Len(ts) |-> <<ts[i].id, ts[i].status_id, ts[i].priority_id, ts[i].assignee_id,
                            ts[i].sort_order>>]

\* the drop of the step puts the dragged task where it is shown: on its
\* predecessor's lower half or its successor's upper half, in its own bucket
DropOnOwnPosition ==
    /\ dnd = "dragging"
    /\ lastOp'.op \in {"handleTaskDrop", "handleCardDrop"}
    /\ hasTask(state, dragState.draggingTaskId) /\ hasTask(state, lastOp'.target)
    /\ getTaskById(state, dragState.draggingTaskId).status_id
           = getTaskById(state, lastOp'.target).status_id
    /\ getTaskById(state, dragState.draggingTaskId).project_id
           = getTaskById(state, lastOp'.target).project_id
    /\ DisplayedNeighbour(dragState.draggingTaskId, lastOp'.target, lastOp'.above)

\* C7: dropping a task on the position it already occupies changes no
\* status_id, priority_id, assignee_id or sort_order
C7_DropOnOwnPositionIsNoChange ==
    [][DropOnOwnPosition => OrderingFields(state'.tasks) = OrderingFields(state.tasks)]_vars

----
\* Properties of task creation

\* C2: a task created by quick-add or by the create-task modal gets a
\* sequence_id greater than that of every task its project already holds, so
\* no two tasks of a project share a sequence_id
C2_SequenceIdsStrictlyIncrease ==
    [][Len(state'.tasks) > Len(state.tasks) =>
           \A i \in 1..Len(state.tasks) :
               state.tasks[i].project_id = state'.tasks[Len(state'.tasks)].project_id
                   => state.tasks[i].sequence_id < state'.tasks[Len(state'.tasks)].sequence_id]_vars

----
\* Properties of the task projection

\* the filter settings of a project that let every task pass
NeutralFilters(st, projectId) ==
    [st EXCEPT !.showArchivedTasks[projectId] = TRUE, !.assignedToMe[projectId] = FALSE,
               !.assigneeFilter[projectId] = {}, !.taskSearch[projectId] = <<>>]

\* the state in which one filter of the project is set as in st and the others let all pass
OnlyArchivedFilter(st, projectId) ==
    [NeutralFilters(st, projectId) EXCEPT
        !.showArchivedTasks[projectId] = st.showArchivedTasks[projectId]]
OnlyAssignedToMe(st, projectId) ==
    [NeutralFilters(st, projectId) EXCEPT !.assignedToMe[projectId] = st.assignedToMe[projectId]]
OnlyAssigneeFilter(st, projectId) ==
    [NeutralFilters(st, projectId) EXCEPT
        !.assigneeFilter[projectId] = st.assigneeFilter[projectId]]
OnlySearch(st, projectId) ==
    [NeutralFilters(st, projectId) EXCEPT !.taskSearch[projectId] = st.taskSearch[projectId]]

\* the task passes each of the four filters taken on its own
PassesEachFilterAlone(st, t, projectId) ==
    /\ TaskPasses(OnlyArchivedFilter(st, projectId), t, projectId)
    /\ TaskPasses(OnlyAssignedToMe(st, projectId), t, projectId)
    /\ TaskPasses(OnlyAssigneeFilter(st, projectId), t, projectId)
    /\ TaskPasses(OnlySearch(st, projectId), t, projectId)

\* C4: getTasksForProject returns exactly the tasks of the project that pass
\* each of the four filters taken on its own
C4_FiltersIntersect ==
    \A projectId \in ProjectIds :
        getTasksForProject(state, projectId)
            = SeqFilter(state.tasks, LAMBDA t : PassesEachFilterAlone(state, t, projectId))

\* all four filters of project p1 are set, each removes a task that another
\* lets pass, and a task is left
C4_AllFiltersActive ==
    /\ lastOp.op \in {"toggleArchived", "toggleAssignedToMe", "toggleAssigneeFilter", "searchTasks"}
    /\ ~state.showArchivedTasks["p1"]
    /\ state.assignedToMe["p1"]
    /\ state.assigneeFilter["p1"] = {"u1", "unassigned"}
    /\ state.taskSearch["p1"] = <<"A">>
    /\ RowIds(getTasksForProject(state, "p1")) = <<1>>
    /\ Len(getTasksForProject(OnlyArchivedFilter(state, "p1"), "p1")) = 3
    /\ Len(getTasksForProject(OnlyAssignedToMe(state, "p1"), "p1")) = 2
    /\ Len(getTasksForProject(OnlyAssigneeFilter(state, "p1"), "p1")) = 3
    /\ Len(getTasksForProject(OnlySearch(state, "p1"), "p1")) = 3

\* the progress of a project over all its non-archived tasks
ProgressOfAllTasks(st, projectId) ==
    Progress(SeqFilter(st.tasks, LAMBDA t : t.project_id = projectId /\ ~t.is_archived),
             SeqFilter(st.tasks, LAMBDA t :
                 /\ t.project_id = projectId /\ ~t.is_archived
                 /\ hasStatus(st, t.status_id)
                 /\ getStatusById(st, t.status_id).category = "done"))

\* C8: calculateProjectProgress counts all non-archived tasks of the project
\* and those of them in a done status, whatever the filters of the project are
C8_ProgressIgnoresFilters ==
    \A projectId \in ProjectIds :
        calculateProjectProgress(state, projectId) = ProgressOfAllTasks(state, projectId)

----
\* Properties of grouping

\* the groups of the list view for the group-by mode of the project
CurrentGroups(st, projectId) ==
    getGroupsForTasks(st, getTasksForProject(st, projectId), projectId,
                      st.projectGroupBy[projectId])

\* the groups that hold a task
GroupsHolding(gs, taskId) ==
    { i \in 1..Len(gs) : \E j \in 1..Len(gs[i].tasks) : gs[i].tasks[j].id = taskId }

\* every task of ts is in exactly one group, once, and the groups hold nothing else
Partitions(gs, ts) ==
    /\ \A k \in 1..Len(ts) : Cardinality(GroupsHolding(gs, ts[k].id)) = 1
    /\ \A i \in 1..Len(gs) :
           /\ Range(gs[i].tasks) \subseteq Range(ts)
           /\ Cardinality(Range(RowIds(gs[i].tasks))) = Len(gs[i].tasks)

\* C5: in every group-by mode the groups partition the filtered task set; a
\* task with an unknown status, priority or assignee is in a group all the same
C5_GroupsPartitionTasks ==
    \A projectId \in ProjectIds :
        Partitions(CurrentGroups(state, projectId), getTasksForProject(state, projectId))

----
\* Properties of workflow management

\* the project of the open modal
ModalProjectId == getProjectBySlug(state, modal.slug).id

\* C10: a project that has a status keeps one, and a delete attempted on the
\* only status of a project is rejected with a notification and changes nothing
C10_LastStatusIsKept ==
    [][/\ \A projectId \in ProjectIds :
              getStatusesForProject(state, projectId) # <<>>
                  => getStatusesForProject(state', projectId) # <<>>
       /\ (/\ lastOp'.op = "deleteWorkflowStatus"
           /\ Len(getStatusesForProject(state, ModalProjectId)) = 1)
              => /\ state' = state
                 /\ toast'.type = "error"]_vars

\* a delete was attempted on the one status project p1 had left after an
\* earlier delete, and was rejected
C10_DeleteOfLastStatusRejected ==
    /\ lastOp.op = "deleteWorkflowStatus"
    /\ lastOp.outcome = "rejected"
    /\ modal.slug = "alpha"
    /\ Len(getStatusesForProject(state, "p1")) = 1
    /\ Len(state.statuses) < Len(LoadedStatuses)
    /\ toast.type = "error"

----
\* Properties of the Gantt gestures

\* the calendar day the timeline of the rendered roadmap starts on
TimelineStartDay == (dom.timelineStart + HourUnits * env.tz) \div DayUnits

\* C9: a released gesture writes start_date = timelineStart + round(L * totalDays)
\* days and due_date = timelineStart + round((L + W) * totalDays) days; on a
\* timeline from 2025-01-01 a bar from its start that is 14 days wide gives the
\* due date 2025-01-15
C9_ReleaseWritesDatesOfBar ==
    (lastOp.op = "ganttMouseUp" /\ hasTask(state, lastOp.task)) =>
        /\ getTaskById(state, lastOp.task).start_date
               = TimelineStartDay + RoundDiv(lastOp.left, DayUnits)
        /\ getTaskById(state, lastOp.task).due_date
               = TimelineStartDay + RoundDiv(lastOp.left + lastOp.width, DayUnits)
        /\ ReleaseDates([left |-> 0, width |-> 14 * DayUnits],
                        LocalMidnight(Jan1, env.tz)).due_date = Jan1 + 14

----
\* Properties of project creation, settings and deletion

ProjectIdsOf(st) == { st.projects[i].id : i \in 1..Len(st.projects) }

\* the project the open delete modal was opened for
ModalProject == getProjectById(state, modal.projectId)

\* the step removes exactly the project of the delete modal with its tasks and
\* files, after its name was typed
CascadeOfConfirmedDelete ==
    /\ lastOp'.op = "confirmDeleteProject"
    /\ modal.kind = "delete-project"
    /\ modal.confirmText = ModalProject.name
    /\ state'.projects = SeqFilter(state.projects, LAMBDA p : p.id # modal.projectId)
    /\ state'.tasks = SeqFilter(state.tasks, LAMBDA t : t.project_id # modal.projectId)
    /\ state'.files = SeqFilter(state.files, LAMBDA f : f.project_id # modal.projectId)

\* C11: a project leaves the store only in a step of the delete-confirmation
\* handler with the project's name typed, and that step removes exactly that
\* project with all its tasks and files and nothing of another project; a
\* confirmation with another text leaves projects, tasks and files unchanged
C11_ProjectLeavesOnlyByConfirmedDelete ==
    [][ /\ (ProjectIdsOf(state) \ ProjectIdsOf(state') # {} \/ Len(state'.tasks) < Len(state.tasks)
             \/ Len(state'.files) < Len(state.files))
            => CascadeOfConfirmedDelete
        /\ (lastOp'.op = "confirmDeleteProject" /\ modal.kind = "delete-project"
             /\ modal.confirmText # ModalProject.name)
            => /\ state'.projects = state.projects
               /\ state'.tasks = state.tasks
               /\ state'.files = state.files ]_vars

\* project alpha was deleted with its tasks and its file; project beta, its
\* task and its file are still there
C11_AlphaDeletedBetaKept ==
    /\ lastOp.op = "confirmDeleteProject" /\ lastOp.outcome = "deleted"
    /\ ~hasProject(state, "p1") /\ hasProject(state, "p2")
    /\ state.tasks # <<>> /\ \A i \in 1..Len(state.tasks) : state.tasks[i].project_id = "p2"
    /\ state.files # <<>> /\ \A i \in 1..Len(state.files) : state.files[i].project_id = "p2"

\* C12: no two projects of the store have the same slug: the route of every
\* project resolves to that project
C12_SlugsAreUnique ==
    \A i \in 1..Len(state.projects) :
        getProjectBySlug(state, state.projects[i].slug).id = state.projects[i].id

----
\* Properties of a store with failed loads

LoadedCollections == DataFiles \ {"workspace"}

\* C13: whatever files fail to load, every collection of the store is a list,
\* empty when its file failed and the file's data otherwise, and filtering,
\* grouping and progress computation on that store throw nothing and yield
\* their results, with or without a current user
C13_FailedLoadsAreTolerated ==
    /\ \A c \in LoadedCollections :
          state[c] = IF c \in env.failed THEN <<>> ELSE LoadedState(LoadedTasks)[c]
    /\ \A p \in {"p1", "p2"} :
          /\ ~getTasksForProjectThrows(state, p)
          /\ Len(getTasksForProject(state, p)) <= Len(state.tasks)
          /\ calculateProjectProgress(state, p).percentage \in 0..100
          /\ \A g \in GroupByModes :
                Len(getGroupsForTasks(state, getTasksForProject(state, p), p, g)) >= 0

\* users.json and statuses.json failed, and the tasks of the project are
\* filtered by "assigned to me" and a search text and grouped by assignee
C13_FilteredWithoutUsers ==
    /\ {"users", "statuses"} \subseteq env.failed /\ state.tasks # <<>>
    /\ state.assignedToMe["p1"] /\ state.taskSearch["p1"] # <<>>
    /\ state.projectGroupBy["p1"] = "assignee"
    /\ dom.view = "detail"

----
\* Properties of the order of rows and cards

\* rank of a character in the lexicographic order of the titles
CharRank(c) == CASE c = " " -> 0 [] c = "A" -> 1 [] c = "B" -> 2 [] c = "a" -> 3
                 [] c = "b" -> 4 [] OTHER -> 5

\* a <= b in the lexicographic order
RECURSIVE LexLeq(_, _)
LexLeq(a, b) ==
    IF a = <<>> THEN TRUE
    ELSE IF b = <<>> THEN FALSE
    ELSE IF Head(a) # Head(b) THEN CharRank(Head(a)) < CharRank(Head(b))
    ELSE LexLeq(Tail(a), Tail(b))

\* Priority.sort_order of a task's priority; tasks without a known priority last
PriorityRank(st, t) ==
    IF \E i \in 1..Len(st.priorities) : st.priorities[i].id = t.priority_id
    THEN st.priorities[FindIndex(st.priorities, LAMBDA q : q.id = t.priority_id)].sort_order
    ELSE Len(st.priorities) + 1

\* task a may stand before task b in ascending order of the field
AscendingBy(st, field, a, b) ==
    CASE field = "manual" -> a.status_id # b.status_id \/ a.sort_order <= b.sort_order
      [] field = "title" -> LexLeq(a.title, b.title)
      [] field = "priority" -> PriorityRank(st, a) <= PriorityRank(st, b)
      [] field = "dueDate" -> b.due_date = NoDate \/ (a.due_date # NoDate /\ a.due_date <= b.due_date)
      [] field = "created" -> a.created_at <= b.created_at
      [] field = "updated" -> a.updated_at <= b.updated_at

\* task a may stand before task b under the sort setting
InSortOrder(st, sort, a, b) ==
    IF sort.direction = "asc" THEN AscendingBy(st, sort.field, a, b)
    ELSE AscendingBy(st, sort.field, b, a)

\* the rows of every rendered group follow the sort setting
RowsFollow(sort) ==
    \A g \in 1..Len(dom.groups) : \A i, j \in 1..Len(dom.groups[g].rows) :
        i < j => InSortOrder(state, sort, getTaskById(state, dom.groups[g].rows[i]),
                             getTaskById(state, dom.groups[g].rows[j]))

\* C14: in list view the rows of every group are in the order of the project's
\* sort field and direction (manual: ascending sort_order within a status)
C14_ListRowsFollowSortSetting ==
    (dom.view = "detail" /\ dom.tab = "tasks" /\ hasProjectSlug(state, dom.slug))
        => RowsFollow(state.projectSort[getProjectBySlug(state, dom.slug).id])

\* C15: in board view the cards of every column are in ascending sort_order
C15_BoardCardsAscendBySortOrder ==
    (dom.view = "detail" /\ dom.tab = "board")
        => RowsFollow([field |-> "manual", direction |-> "asc"])

----
\* Properties of the timeline window

\* the timeline of a scale at the session's offset, clock and timezone
TimelineOf(scale) == generateTimeline(scale, state.roadmapOffset, env.now, env.tz)

\* totalDays is the number of days from timelineStart to timelineEnd, counting
\* the day of timelineEnd (lastDay = 1) or not (lastDay = 0)
CountsDays(timeline, lastDay) ==
    timeline.totalDays =
        ((timeline.timelineEnd - timeline.timelineStart + DayUnits - 1) \div DayUnits) + lastDay

\* C16: at every offset the four scales measure totalDays from timelineStart to
\* timelineEnd by one and the same convention
C16_TotalDaysByOneConvention ==
    \E lastDay \in {0, 1} : \A scale \in RoadmapScales : CountsDays(TimelineOf(scale), lastDay)

----
\* Properties of a drop on a bucket

\* the step is a drop of the dragged task that reaches moveTask: on the empty
\* area of a group, or on the row or card of another task
DropMovesTask ==
    /\ dnd = "dragging"
    /\ lastOp'.op \in DropHandlers
    /\ hasTask(state, dragState.draggingTaskId)
    /\ hasProjectSlug(state, dragState.currentProjectSlug)
    /\ lastOp'.op \in {"handleTaskDrop", "handleCardDrop"}
           => lastOp'.target # dragState.draggingTaskId /\ hasTask(state, lastOp'.target)

\* the field a grouping dimension classifies by
DimensionField(groupType) ==
    CASE groupType = "status" -> "status_id"
      [] groupType = "priority" -> "priority_id"
      [] groupType = "assignee" -> "assignee_id"

\* value is the value the bucket groupId of a dimension stands for
BucketValue(groupType, groupId, value) ==
    CASE groupType = "status" -> value = groupId
      [] groupType = "priority" ->
            value = (IF groupId = "priority-none" THEN NULL ELSE groupId)
      [] groupType = "assignee" ->
            IF groupId = "unassigned" THEN value = NULL
            ELSE groupId = "assignee-" \o value

\* the values a classification field may take
FieldValues(st) ==
    {NULL} \cup StatusIdsOf(st) \cup Range(PriorityGroupIds)
           \cup { st.users[i].id : i \in 1..Len(st.users) }

Classification(t) == <<t.status_id, t.priority_id, t.assignee_id>>

\* the drop of the step is on a bucket whose value differs from the dragged
\* task's field of the bucket's dimension
DropOnOtherBucket(value) ==
    /\ DropMovesTask
    /\ lastOp'.groupType \in {"status", "priority", "assignee"}
    /\ BucketValue(lastOp'.groupType, lastOp'.groupId, value)
    /\ getTaskById(state, dragState.draggingTaskId)[DimensionField(lastOp'.groupType)] # value

\* the dragged task takes the value in the field of the dimension and a fresh
\* updated_at; its other two classification fields and the classification of
\* every other task stay
ReclassifiedOnly(taskId, field, value) ==
    \A i \in 1..Len(state.tasks) :
        IF state.tasks[i].id = taskId
        THEN /\ state'.tasks[i].id = taskId
             /\ state'.tasks[i][field] = value
             /\ state'.tasks[i].updated_at = clock'
             /\ \A f \in {"status_id", "priority_id", "assignee_id"} \ {field} :
                    state'.tasks[i][f] = state.tasks[i][f]
        ELSE /\ state'.tasks[i].id = state.tasks[i].id
             /\ Classification(state'.tasks[i]) = Classification(state.tasks[i])

\* C17: a drop on a bucket of the status, priority or assignee dimension whose
\* value differs from the task's sets that field of the task to the bucket's
\* value and refreshes its updated_at; the task's other two classification
\* fields and the classification of all other tasks are unchanged
C17_DropSetsFieldOfDimension ==
    [][\A value \in FieldValues(state) :
          DropOnOtherBucket(value) =>
              /\ Len(state'.tasks) = Len(state.tasks)
              /\ ReclassifiedOnly(dragState.draggingTaskId,
                                  DimensionField(lastOp'.groupType), value)]_vars

\* a task dragged from the group of one assignee was dropped on the group of
\* another and carries the new assignee, with its status and priority as loaded
C17_ReassignedByDrop ==
    /\ lastOp.op \in DropHandlers
    /\ lastOp.groupType = "assignee" /\ lastOp.groupId = "assignee-u2"
    /\ lastOp.task = 1
    /\ getTaskById(state, 1).assignee_id = "u2"
    /\ getTaskById(state, 1).status_id = "s1"
    /\ getTaskById(state, 1).priority_id = "priority-high"
    /\ getTaskById(state, 1).updated_at = clock

----
\* Properties of the order a drop leaves

\* the (project, status) bucket a task of the store st belongs to, in the order
\* of sort_order
BucketOf(st, taskId) ==
    SortBySortOrder(BucketTasks(st, getTaskById(st, taskId).project_id,
                                getTaskById(st, taskId).status_id))

\* the 1-based position of a task in a list of tasks, 0 when it is not in it
PositionIn(bucket, taskId) ==
    IF \E i \in 1..Len(bucket) : bucket[i].id = taskId
    THEN CHOOSE i \in 1..Len(bucket) : bucket[i].id = taskId
    ELSE 0

\* every task of the bucket carries its 1-based position as sort_order
RankedByPosition(bucket) == \A i \in 1..Len(bucket) : bucket[i].sort_order = i

\* the tasks of the bucket other than taskId are in the order the store st
\* ranked them in
OthersKeepOrder(bucket, st, taskId) ==
    \A i, j \in 1..Len(bucket) :
        (i < j /\ bucket[i].id # taskId /\ bucket[j].id # taskId)
            => getTaskById(st, bucket[i].id).sort_order
                   <= getTaskById(st, bucket[j].id).sort_order

\* where the drop has put the task taskId within its bucket
PlacedAt(bucket, taskId, targetTaskId, isAbove) ==
    IF targetTaskId = NoTask
    THEN PositionIn(bucket, taskId) = Len(bucket)
    ELSE /\ PositionIn(bucket, targetTaskId) # 0
         /\ PositionIn(bucket, taskId)
                = PositionIn(bucket, targetTaskId) + (IF isAbove THEN -1 ELSE 1)

\* C18: after a drop of task T on target task U the bucket T belongs to has T
\* immediately before (side above) or after (side below) U, without a target
\* it has T last; the other tasks of the bucket keep their relative order and
\* every task of the bucket has its 1-based position as sort_order
C18_DropPlacesTaskAtTarget ==
    [][DropMovesTask =>
           /\ hasTask(state', dragState.draggingTaskId)
           /\ PlacedAt(BucketOf(state', dragState.draggingTaskId), dragState.draggingTaskId,
                       lastOp'.target, lastOp'.above)
           /\ OthersKeepOrder(BucketOf(state', dragState.draggingTaskId), state,
                              dragState.draggingTaskId)
           /\ RankedByPosition(BucketOf(state', dragState.draggingTaskId))]_vars

----
\* Properties of drops that should change nothing

\* the rendered group or column with the given id shows the row of the task
ShownInGroup(groupId, taskId) ==
    \E g \in 1..Len(dom.groups) :
        dom.groups[g].id = groupId /\ taskId \in Range(dom.groups[g].rows)

\* the drop of the step is on the empty area of the group or column that
\* shows the dragged task
DropOnOwnBucket ==
    /\ DropMovesTask
    /\ lastOp'.op \in {"handleListDrop", "handleColumnDrop"}
    /\ ShownInGroup(lastOp'.groupId, dragState.draggingTaskId)

\* C19: a drop of a task on the empty area of the bucket it already belongs to
\* changes no status_id, priority_id or assignee_id and leaves the order and
\* the sort_order of the tasks as they were
C19_DropOnOwnBucketKeepsOrder ==
    [][DropOnOwnBucket => OrderingFields(state'.tasks) = OrderingFields(state.tasks)]_vars

\* the drop of the step is on the row or card of the dragged task itself
DropOnOwnRow ==
    /\ dnd = "dragging"
    /\ lastOp'.op \in {"handleTaskDrop", "handleCardDrop"}
    /\ lastOp'.target = dragState.draggingTaskId

\* C20: a drop of the dragged task on its own row or card is ignored: the
\* store with all task fields and view settings stays, nothing is rendered
\* again and no toast is shown
C20_DropOnOwnRowIsIgnored ==
    [][DropOnOwnRow =>
           /\ state' = state
           /\ dom' = dom /\ listeners' = listeners
           /\ viewAbortController' = viewAbortController
           /\ dragState' = dragState
           /\ toast' = toast /\ modal' = modal]_vars

\* the card of task 1 was dropped on itself on the board: it is still the
\* element of the drag and task 1 is first in its column as before
C20_CardDroppedOnItself ==
    /\ lastOp.op = "handleCardDrop"
    /\ lastOp.task = 1 /\ lastOp.target = 1
    /\ dnd = "dropped"
    /\ dragState.draggingTaskId = 1 /\ dragState.dragElement = "attached"
    /\ dom.tab = "board"
    /\ getTaskById(state, 1).sort_order = 1

----
\* Properties of drops without a dragged task or a target

\* the step is a drop while no task is being dragged, or of a dragged id that
\* no task carries, or on a target without a group id
DropWithoutTaskOrTarget ==
    /\ lastOp'.op \in DropHandlers
    /\ \/ dragState.draggingTaskId = NoTask
       \/ ~hasTask(state, dragState.draggingTaskId)
       \/ lastOp'.groupId = NULL

----
\* Properties of drops on the board with swimlanes

\* the classification field of a swimlane mode
SwimlaneField(swimlane) == IF swimlane = "priority" THEN "priority_id" ELSE "assignee_id"

\* the swimlane mode of the board of the rendered project
RenderedSwimlane == state.boardSwimlane[getProjectBySlug(state, dom.slug).id]

\* the step drops the dragged card on the card of a task that is shown in a
\* lane of the given value, other than the dragged task's value of that field
DropIntoOtherLane(value) ==
    /\ DropMovesTask
    /\ lastOp'.op = "handleCardDrop"
    /\ RenderedSwimlane \in {"priority", "assignee"}
    /\ \E g \in 1..Len(dom.groups) : \E l \in 1..Len(dom.groups[g].lanes) :
           /\ lastOp'.target \in Range(dom.groups[g].lanes[l].rows)
           /\ dom.groups[g].lanes[l].value = value
    /\ getTaskById(state, dragState.draggingTaskId)[SwimlaneField(RenderedSwimlane)] # value

\* C22: on the board with swimlanes by priority or assignee, a card dropped
\* into the lane of another value gets that value as priority_id or
\* assignee_id, null for the lanes 'priority-none' and 'unassigned'
C22_DropIntoLaneSetsLaneValue ==
    [][\A value \in FieldValues(state) :
          DropIntoOtherLane(value) =>
              getTaskById(state', dragState.draggingTaskId)[SwimlaneField(RenderedSwimlane)]
                  = value]_vars

----
\* Properties of the drag engine

\* the engine is idle: no dragged task and no captured field
DragEngineIdle ==
    /\ dragState.draggingTaskId = NoTask
    /\ dragState.sourceStatusId = NULL
    /\ dragState.dragElement = NULL

\* a dragstart on the row or card of a task captures its id and its status
DragStartCaptures ==
    (lastOp'.op = "handleDragStart" /\ hasTask(state, lastOp'.task)) =>
        /\ dragState'.draggingTaskId = lastOp'.task
        /\ dragState'.sourceStatusId = getTaskById(state, lastOp'.task).status_id

\* C23: the drag engine is idle initially, a dragstart makes it hold the id and
\* the source status of the one dragged task, and every state in which it
\* holds a task is followed by an idle state with all captured fields
\* cleared, also when the drop has rendered the view anew
C23_DraggingIsFollowedByIdle ==
    /\ DragEngineIdle
    /\ [][DragStartCaptures]_vars
    /\ (~DragEngineIdle ~> DragEngineIdle)

----
\* Properties of the bar geometry during a Gantt gesture

\* the bar of the gesture before and after the step
GestureBar == dom.bars[ganttDragState.bar]
GestureBarAfter == dom'.bars[ganttDragState.bar]

\* the length that is 100 % of the track
TrackLength == DayUnits * dom.totalDays

\* move: the width is the initial width and the bar lies within the track
MoveRule ==
    /\ GestureBarAfter.width = ganttDragState.initialWidth
    /\ 0 <= GestureBarAfter.left
    /\ GestureBarAfter.left <= TrackLength - GestureBarAfter.width

\* resize-left: the update is rejected, or left and width change by opposite
\* amounts and the width is at least 2 %
ResizeLeftRule ==
    \/ GestureBarAfter = GestureBar
    \/ /\ GestureBarAfter.left - ganttDragState.initialLeft
              = ganttDragState.initialWidth - GestureBarAfter.width
       /\ GestureBarAfter.width >= MinWidth(dom.totalDays)

\* resize-right: left stays, the width is at least 2 % and the bar ends within
\* the track
ResizeRightRule ==
    /\ GestureBarAfter.left = GestureBar.left
    /\ GestureBarAfter.width >= MinWidth(dom.totalDays)
    /\ GestureBarAfter.left + GestureBarAfter.width <= TrackLength

\* C24: every pointer-move of a Gantt gesture leaves the bar in the geometry
\* its mode allows: move keeps the width and 0 <= left <= 100 - width,
\* resize-left changes left and width by opposite amounts or rejects a width
\* below 2, resize-right changes the width only, with 2 <= width and
\* left + width <= 100
C24_PointerMoveObeysModeRule ==
    [][lastOp'.op = "ganttMouseMove" =>
           CASE ganttDragState.dragType = "move" -> MoveRule
             [] ganttDragState.dragType = "resize-left" -> ResizeLeftRule
             [] ganttDragState.dragType = "resize-right" -> ResizeRightRule]_vars

----
\* Properties of the bar after a released gesture

\* a length snapped to whole days
SnapToDay(length) == DayUnits * RoundDiv(length, DayUnits)

\* the re-rendered bar of the task spans the snapped span of the released bar
RenderedAsReleased(bar) ==
    /\ bar.left = SnapToDay(lastOp.left)
    /\ bar.left + bar.width = SnapToDay(lastOp.left + lastOp.width)

\* C25: after a Gantt gesture is released the bar rendered from the persisted
\* start_date and due_date has the left and the width the bar had at the
\* release, snapped to whole days, whatever geometry the gesture ended in
C25_RenderReproducesReleasedBar ==
    (lastOp.op = "ganttMouseUp" /\ dom.hasGantt) =>
        \E b \in 1..Len(dom.bars) :
            dom.bars[b].taskId = lastOp.task /\ RenderedAsReleased(dom.bars[b])

----
\* Properties of the Gantt engine

GanttIdle == ganttDragState.taskId = NoTask

\* a pointer-down on the bar of a task enters dragging for that task in one of
\* the three modes
PointerDownEntersDragging ==
    (lastOp'.op = "ganttMouseDown" /\ hasTask(state, lastOp'.task)) =>
        /\ ganttDragState'.taskId = lastOp'.task
        /\ ganttDragState'.dragType \in {"move", "resize-left", "resize-right"}

\* dragging starts with a pointer-down and ends with a pointer-up only
DraggingBetweenDownAndUp ==
    /\ (GanttIdle /\ ~GanttIdle') => lastOp'.op = "ganttMouseDown"
    /\ (~GanttIdle /\ GanttIdle') => lastOp'.op = "ganttMouseUp"

\* the pointer-up of a gesture writes the dates of the bar and ends the gesture
PointerUpCommits ==
    (lastOp'.op = "ganttMouseUp" /\ hasTask(state, ganttDragState.taskId)) =>
        /\ GanttIdle'
        /\ getTaskById(state', ganttDragState.taskId).start_date
               = ReleaseDates(GestureBar, dom.timelineStart).start_date
        /\ getTaskById(state', ganttDragState.taskId).due_date
               = ReleaseDates(GestureBar, dom.timelineStart).due_date

\* C26: the Gantt engine stays idle until a pointer-down on a task bar, which
\* enters dragging in the mode of the part the gesture started on; the first
\* pointer-up while dragging writes the task's dates and returns to idle, and
\* dragging is left in no other way
C26_GestureEndsOnlyWithCommit ==
    [][PointerDownEntersDragging /\ DraggingBetweenDownAndUp /\ PointerUpCommits]_vars


\* ---------------------------------------------------------------------------
\* The units of the roadmap window

\* the units of the window of a scale at an offset, at the present clock reading
UnitsAt(scale, offset) == generateTimeline(scale, offset, env.now, env.tz).units

\* each unit begins the day after the one before it ends
Contiguous(units) ==
    /\ \A u \in 1..Len(units) : units[u].start <= units[u].end
    /\ \A u \in 1..(Len(units) - 1) : units[u + 1].start = units[u].end + DayUnits

\* `later` is `earlier` without its first unit, followed by the next unit
ShiftedByOneUnit(earlier, later) ==
    /\ Len(later) = Len(earlier)
    /\ \A u \in 1..(Len(earlier) - 1) : later[u] = earlier[u + 1]
    /\ later[Len(later)].start = earlier[Len(earlier)].end + DayUnits

\* the number of days of the units of each scale
UnitDays(scale) ==
    CASE scale = "week" -> {7}
      [] scale = "month" -> 28..31
      [] scale = "quarter" -> 90..92
      [] scale = "year" -> {365, 366}

UnitsOfScale(scale, units) ==
    \A u \in 1..Len(units) :
        (units[u].end - units[u].start) \div DayUnits + 1 \in UnitDays(scale)

\* C27: for each scale, a step that raises the roadmap offset by 1 replaces the
\* window by the one that starts one unit later: its units are the units of the
\* window before without the first, followed by the next unit of that scale, and
\* the units of a window follow one another without gap or overlap
C27_OffsetShiftsWindowByOneUnit ==
    [][state'.roadmapOffset = state.roadmapOffset + 1 /\ env' = env
          => \A scale \in RoadmapScales :
                /\ ShiftedByOneUnit(UnitsAt(scale, state.roadmapOffset),
                                    UnitsAt(scale, state'.roadmapOffset))
                /\ Contiguous(UnitsAt(scale, state.roadmapOffset))
                /\ Contiguous(UnitsAt(scale, state'.roadmapOffset))
                /\ UnitsOfScale(scale, UnitsAt(scale, state'.roadmapOffset))]_vars

\* the next button has moved a quarter window two quarters past the present one
C27_QuarterWindowMovedForward ==
    /\ lastOp.op = "roadmapNext"
    /\ state.roadmapScale = "quarter"
    /\ state.roadmapOffset = MaxOffset
    /\ dom.timelineStart = UnitsAt("quarter", MaxOffset)[1].start


\* ---------------------------------------------------------------------------
\* Deleting a status that tasks use

\* the ids of the statuses of a project in a store
ProjectStatusIds(st, projectId) ==
    { st.statuses[i].id : i \in { j \in 1..Len(st.statuses) :
                                     st.statuses[j].project_id = projectId } }

StatusInUse(st, statusId) == \E i \in 1..Len(st.tasks) : st.tasks[i].status_id = statusId

\* statusId is a status of the project that no other status of it precedes
FirstInWorkflowOrder(st, projectId, statusId) ==
    \E i \in 1..Len(st.statuses) :
        /\ st.statuses[i].id = statusId
        /\ st.statuses[i].project_id = projectId
        /\ \A j \in 1..Len(st.statuses) :
               st.statuses[j].project_id = projectId
                   => st.statuses[i].sort_order <= st.statuses[j].sort_order

\* C28: when a status of the modal's project that tasks use is deleted after
\* the confirmation, every task that had it has the status that is first in
\* workflow order among the remaining statuses of the project, and no task
\* references the deleted status; when the confirmation is declined, statuses
\* and tasks are unchanged
C28_DeleteMovesTasksToFirstStatus ==
    [][lastOp'.op = "deleteWorkflowStatus"
          => /\ lastOp'.outcome = "deleted"
                  => \A statusId \in ProjectStatusIds(state, ModalProjectId)
                                        \ ProjectStatusIds(state', ModalProjectId) :
                         /\ \A i \in 1..Len(state.tasks) :
                                state.tasks[i].status_id = statusId
                                    => FirstInWorkflowOrder(state', ModalProjectId,
                                                            state'.tasks[i].status_id)
                         /\ ~StatusInUse(state', statusId)
             /\ lastOp'.outcome = "cancelled"
                  => /\ state'.statuses = state.statuses
                     /\ state'.tasks = state.tasks]_vars

\* a status has been deleted and a task that had it has another status now
C28_TaskMovedByDeletion ==
    /\ lastOp.op = "deleteWorkflowStatus"
    /\ lastOp.outcome = "deleted"
    /\ Len(state.statuses) < Len(LoadedStatuses)
    /\ \E i \in 1..Len(state.tasks) :
           /\ i <= Len(LoadedTasks)
           /\ state.tasks[i].status_id # LoadedTasks[i].status_id


\* ---------------------------------------------------------------------------
\* The sort menu

\* the sort setting of the project on screen
ShownSort == state.projectSort[getProjectBySlug(state, dom.slug).id]

Flipped(direction) == IF direction = "asc" THEN "desc" ELSE "asc"

\* a step of the sort menu: the field chosen is the active field afterwards
SortMenuStep == lastOp'.op = "setProjectSort" /\ dom'.slug = dom.slug

\* C29 as stated: choosing the active field flips the direction for every
\* field, and choosing another field makes it active with direction ascending
C29_ActiveFieldFlipsForEveryField ==
    [][SortMenuStep
          => IF ShownSort'.field = ShownSort.field
             THEN ShownSort'.direction = Flipped(ShownSort.direction)
             ELSE ShownSort'.direction = "asc"]_vars

\* C29 amended: choosing the active field flips the direction for every field
\* but manual; choosing another field, or manual, gives direction ascending
C29_ActiveFieldFlipsExceptManual ==
    [][SortMenuStep
          => IF ShownSort'.field = ShownSort.field /\ ShownSort'.field # "manual"
             THEN ShownSort'.direction = Flipped(ShownSort.direction)
             ELSE ShownSort'.direction = "asc"]_vars

\* the title field was chosen while it was active and ascending
C29_TitleChosenTwice ==
    /\ lastOp.op = "setProjectSort"
    /\ ShownSort = [field |-> "title", direction |-> "desc"]


\* ---------------------------------------------------------------------------
\* The assignee filter

\* the ids of the tasks of a project
ProjectTaskIds(st, projectId) ==
    { st.tasks[i].id : i \in { j \in 1..Len(st.tasks) : st.tasks[j].project_id = projectId } }

\* the ids of the tasks of a project whose assignee_id is in a set
AssignedTo(st, projectId, assignees) ==
    { st.tasks[i].id : i \in { j \in 1..Len(st.tasks) :
                                  /\ st.tasks[j].project_id = projectId
                                  /\ st.tasks[j].assignee_id \in assignees } }

\* the tasks a selection is to let pass
PassedBySelection(st, projectId, selection) ==
    IF selection = {} THEN ProjectTaskIds(st, projectId)
    ELSE AssignedTo(st, projectId, selection \ {"unassigned", NULL})
             \cup (IF "unassigned" \in selection
                   THEN AssignedTo(st, projectId, {NULL}) ELSE {})

\* the other three filters of the project on screen let every task pass
OtherFiltersOff(projectId) ==
    /\ state.showArchivedTasks[projectId]
    /\ ~state.assignedToMe[projectId]
    /\ Trim(ToLowerCase(state.taskSearch[projectId])) = <<>>

\* the task ids of the rows of the rendered list
RenderedRowIds == UNION { Range(dom.groups[g].rows) : g \in 1..Len(dom.groups) }

\* C30: the assignee filter taken alone passes every task of the project when
\* the selection is empty, and otherwise exactly the tasks whose assignee is
\* selected, with the tasks without assignee if and only if 'unassigned' is
\* selected; with the other filters off the rendered list shows those tasks
C30_AssigneeFilterPassesSelection ==
    \A projectId \in ProjectIds :
        /\ Range(RowIds(getTasksForProject(OnlyAssigneeFilter(state, projectId), projectId)))
               = PassedBySelection(state, projectId, state.assigneeFilter[projectId])
        /\ (/\ OtherFiltersOff(projectId)
            /\ dom.view = "detail" /\ dom.tab = "tasks"
            /\ hasProjectSlug(state, dom.slug)
            /\ getProjectBySlug(state, dom.slug).id = projectId)
               => RenderedRowIds
                      = PassedBySelection(state, projectId, state.assigneeFilter[projectId])

\* with the other filters off, user u2 alone is selected: the list shows the
\* task of u2 and hides the task without assignee
C30_OneAssigneeSelected ==
    /\ lastOp.op = "toggleAssigneeFilter"
    /\ OtherFiltersOff("p1")
    /\ state.assigneeFilter["p1"] = {"u2"}
    /\ dom.slug = "alpha"
    /\ RenderedRowIds = {3}
    /\ AssignedTo(state, "p1", {NULL}) = {2}


\* ---------------------------------------------------------------------------
\* The search filter and the key of a task

\* the decimal digits of a number, as characters
RECURSIVE Digits(_)
Digits(n) == IF n < 10 THEN <<ToString(n)>> ELSE Digits(n \div 10) \o <<ToString(n % 10)>>

\* `${project.identifier}-${task.sequence_id}`: the key the views show for a task
TaskKey(st, t) ==
    getProjectById(st, t.project_id).identifier \o <<"-">> \o Digits(t.sequence_id)

\* the loaded tasks, each row carrying its key as a field
KeyedTasks ==
    [i \in 1..Len(LoadedTasks) |->
        [LoadedTasks[i] EXCEPT !.key = TaskKey(LoadedState(LoadedTasks), LoadedTasks[i])]]

InitSearch == InitOnDetail(LoadedState(KeyedTasks), "alpha", 0, 12)

\* values of the search input: a title, a part of every key, a whole key
SearchQueries == { <<>>, <<"b", " ">>, <<"-">>, <<"A", "-", "4">> }

NextSearch ==
    \/ \E slug \in Slugs, value \in SearchQueries : SearchTasks(slug, value)
    \/ \E slug \in Slugs, g \in GroupIndexes : ShowQuickAddTask(slug, g)
    \/ \E slug \in Slugs, value \in Titles : HandleQuickAddTask(slug, value)
    \/ \E slug \in Slugs, g \in GroupByModes : SetGroupBy(slug, g)

SpecSearch == InitSearch /\ [][NextSearch]_vars

\* the text is a substring of the title, the description, the key, the name of
\* the assignee or the name of a label of the task, letter case aside
FoundInTask(st, t, q) ==
    \/ Includes(ToLowerCase(t.title), q)
    \/ t.description # NoString /\ Includes(ToLowerCase(t.description), q)
    \/ Includes(ToLowerCase(TaskKey(st, t)), q)
    \/ \E u \in 1..Len(st.users) :
           st.users[u].id = t.assignee_id /\ Includes(ToLowerCase(st.users[u].name), q)
    \/ \E l \in 1..Len(st.labels) :
           /\ st.labels[l].id \in Range(t.label_ids)
           /\ Includes(ToLowerCase(st.labels[l].name), q)

\* C31: a task of a project passes the search filter exactly when the trimmed,
\* lower-cased search text is empty or is found in its title, description, key
\* derived from sequence_id, assignee name or a label name; for loaded tasks
\* and for tasks created in the session
C31_SearchFindsTaskByItsFields ==
    \A projectId \in ProjectIds : \A i \in 1..Len(state.tasks) :
        state.tasks[i].project_id = projectId
            => (TaskPasses(OnlySearch(state, projectId), state.tasks[i], projectId)
                   <=> \/ Trim(ToLowerCase(state.taskSearch[projectId])) = <<>>
                       \/ FoundInTask(state, state.tasks[i],
                                      Trim(ToLowerCase(state.taskSearch[projectId]))))


\* ---------------------------------------------------------------------------
\* The outside-click handler of the dropdowns

\* C32: whenever no dropdown is open (state.activeDropdown is null) the
\* document has no outside-click handler, also when the dropdown was closed
\* before the delayed registration of its handler ran
C32_NoOutsideClickHandlerWhileClosed ==
    state.activeDropdown = NULL => ~env.outsideClick


\* ---------------------------------------------------------------------------
\* Swimlanes partition the cards of a column

\* the cards of a status column: the tasks of the projection with that status
ColumnCards(statusId) ==
    { t.id : t \in { u \in Range(getTasksForProject(state, getProjectBySlug(state, dom.slug).id)) :
                        u.status_id = statusId } }

\* the lanes of a rendered column in which a card is shown, counted per row
LanesShowing(column, taskId) ==
    { <<l, r>> \in (1..Len(column.lanes)) \X (1..MaxTaskIds) :
          r <= Len(column.lanes[l].rows) /\ column.lanes[l].rows[r] = taskId }

\* a board with swimlanes is on screen
LanedBoardShown ==
    /\ dom.view = "detail" /\ dom.tab = "board"
    /\ hasProjectSlug(state, dom.slug)
    /\ RenderedSwimlane \in {"priority", "assignee"}

\* C33: on a board with swimlanes every card of a status column is shown in
\* exactly one swimlane of the column, the swimlanes show no other card, and
\* no rendered swimlane is empty
C33_SwimlanesPartitionColumn ==
    LanedBoardShown
        => \A g \in 1..Len(dom.groups) :
               /\ \A taskId \in ColumnCards(dom.groups[g].id) :
                      Cardinality(LanesShowing(dom.groups[g], taskId)) = 1
               /\ \A l \in 1..Len(dom.groups[g].lanes) :
                      /\ dom.groups[g].lanes[l].rows # <<>>
                      /\ Range(dom.groups[g].lanes[l].rows) \subseteq ColumnCards(dom.groups[g].id)


\* ---------------------------------------------------------------------------
\* Clearing the search against pending debounce timers

\* C34: a debounce timer set by a keystroke before the search was cleared does
\* not apply its query and does not render the view once the clear has happened
C34_ClearedSearchStaysEmpty ==
    [][lastOp'.op = "debounceSearch" /\ lastOp'.stale
          => state'.taskSearch = state.taskSearch /\ dom' = dom]_vars


\* ---------------------------------------------------------------------------
\* A press and release on a bar without movement

\* the step is the mouseup of a gesture whose mousedown was the step before
ReleaseWithoutMove ==
    /\ lastOp.op = "ganttMouseDown"
    /\ ganttDragState.taskId # NoTask
    /\ lastOp'.op = "ganttMouseUp"

\* C35: a pointer-down on a bar followed by a pointer-up with no movement in
\* between leaves start_date and due_date of the task as they were
C35_ClickOnBarKeepsDates ==
    [][ReleaseWithoutMove
          => /\ getTaskById(state', ganttDragState.taskId).start_date
                    = getTaskById(state, ganttDragState.taskId).start_date
             /\ getTaskById(state', ganttDragState.taskId).due_date
                    = getTaskById(state, ganttDragState.taskId).due_date]_vars


\* ---------------------------------------------------------------------------
\* The edge a resize gesture leaves alone

\* the bar the gesture started on was rendered unclamped inside the window and
\* stands for the two dates of its task: released as it was, it gives them back
StartedOnUnclampedBar ==
    LET task == getTaskById(state, ganttDragState.taskId)
        initialBar == [left |-> ganttDragState.initialLeft,
                       width |-> ganttDragState.initialWidth]
    IN /\ task.start_date # NoDate /\ task.due_date # NoDate
       /\ ParseDate(task.start_date) >= dom.timelineStart
       /\ initialBar.left + initialBar.width <= TrackLength
       /\ ReleaseDates(initialBar, dom.timelineStart)
              = [start_date |-> task.start_date, due_date |-> task.due_date]

\* C36: for a task whose bar is rendered unclamped inside the window, a
\* committed resize-left gesture leaves the due_date of the task as it was and
\* a committed resize-right gesture leaves its start_date as it was
C36_ResizeKeepsOtherEdge ==
    [][(/\ lastOp'.op = "ganttMouseUp"
        /\ ganttDragState.taskId # NoTask
        /\ hasTask(state, ganttDragState.taskId)
        /\ StartedOnUnclampedBar)
          => /\ ganttDragState.dragType = "resize-left"
                  => getTaskById(state', ganttDragState.taskId).due_date
                         = getTaskById(state, ganttDragState.taskId).due_date
             /\ ganttDragState.dragType = "resize-right"
                  => getTaskById(state', ganttDragState.taskId).start_date
                         = getTaskById(state, ganttDragState.taskId).start_date]_vars


\* ---------------------------------------------------------------------------
\* A drop inside the group that shows the task

\* the drop of the step is on the row of another task of the priority or
\* assignee group of the list that shows the dragged task
DropOnRowOfOwnGroup ==
    /\ DropMovesTask
    /\ lastOp'.op = "handleTaskDrop"
    /\ lastOp'.groupType \in {"priority", "assignee"}
    /\ ShownInGroup(lastOp'.groupId, dragState.draggingTaskId)
    /\ ShownInGroup(lastOp'.groupId, lastOp'.target)

\* C37: in the list grouped by priority or assignee, a drop of a task on
\* another task of the group that shows it leaves status_id, priority_id and
\* assignee_id of every task as they were, also in the fallback groups
C37_DropInsideGroupKeepsClassification ==
    [][DropOnRowOfOwnGroup
          => \A i \in 1..Len(state.tasks) :
                 /\ state'.tasks[i].id = state.tasks[i].id
                 /\ Classification(state'.tasks[i]) = Classification(state.tasks[i])]_vars



\* ---------------------------------------------------------------------------
\* Identifiers of the projects

IdentifiersDistinct(st) ==
    \A i, j \in 1..Len(st.projects) :
        st.projects[i].identifier = st.projects[j].identifier => i = j

\* C38: after every step the identifiers of the projects are pairwise
\* distinct, and a creation submitted with an identifier in use leaves the
\* projects and the statuses as they were
C38_IdentifiersStayDistinct ==
    [][/\ IdentifiersDistinct(state')
       /\ lastOp'.op = "handleCreateProject" /\ toast'.message = "identifier-exists"
            => state'.projects = state.projects /\ state'.statuses = state.statuses]_vars



\* ---------------------------------------------------------------------------
\* What a deleted project leaves behind

RefersTo(collection, projectId) ==
    \E i \in 1..Len(collection) : collection[i].project_id = projectId

\* C39: when a project has been deleted, no task, file, status or label of
\* the store has the id of that project as project_id
C39_NothingRefersToDeletedProject ==
    [][lastOp'.op = "confirmDeleteProject" /\ lastOp'.outcome = "deleted"
          => /\ ~RefersTo(state'.tasks, modal.projectId)
             /\ ~RefersTo(state'.files, modal.projectId)
             /\ ~RefersTo(state'.statuses, modal.projectId)
             /\ ~RefersTo(state'.labels, modal.projectId)]_vars



\* ---------------------------------------------------------------------------
\* The page of a paginated table

\* the page of the table is one of the pages that the items of the project
\* fill, or the first page
PageInRange(st, projectId, table) ==
    LET pagination == st[PaginationOf(table)]
        totalPages == TotalPages(TableItems(st, projectId, table), pagination.pageSize)
    IN /\ 1 <= pagination.page
       /\ pagination.page <= IF totalPages > 1 THEN totalPages ELSE 1

\* C40: while a project is displayed, the page of the files table and the page
\* of the members table lie between 1 and max(1, ceil(itemCount / pageSize))
\* for the items of that project
C40_PageWithinPagesOfProject ==
    dom.view = "detail" /\ hasProjectSlug(state, dom.slug)
        => \A table \in PagedTables :
               PageInRange(state, getProjectBySlug(state, dom.slug).id, table)

====
